---- MODULE Spec2Model ----
(***************************************************************************)
(* Fish Tank Donk: scene-graph transforms, camera projection and the       *)
(* depth-buffered wireframe renderer (src/core/math3d.py,                  *)
(* src/core/transform.py, src/core/renderer.py).                           *)
(*                                                                         *)
(* Numbers.  Python floats are modelled as exact rationals <<n, d>> with   *)
(* d > 0 and gcd(n, d) = 1; rounding error is not modelled.  All values    *)
(* that occur have denominators far below 10^10, so a magnitude is below   *)
(* EPSILON = 1e-10 exactly when it is zero (LtEpsilon).                    *)
(***************************************************************************)
EXTENDS Integers, Sequences, FiniteSets, TLC

(***************************************************************************)
(* Rational arithmetic (the float operations +, -, *, /, <, abs, int)      *)
(***************************************************************************)
IAbs(a) == IF a < 0 THEN -a ELSE a

RECURSIVE GCD(_, _)
GCD(a, b) == IF b = 0 THEN a ELSE GCD(b, a % b)

\* n/d over the common factor g, with the sign carried by the numerator
Reduce(n, d, g) ==
    IF d < 0 THEN <<(-n) \div g, (-d) \div g>> ELSE <<n \div g, d \div g>>

Norm(n, d) == IF n = 0 THEN <<0, 1>> ELSE Reduce(n, d, GCD(IAbs(n), IAbs(d)))

R(n) == <<n, 1>>
Frac(n, d) == Norm(n, d)
R0 == <<0, 1>>
R1 == <<1, 1>>
R2 == <<2, 1>>
RHalf == <<1, 2>>
RQuarter == <<1, 4>>

\* Sums and products reduce by common factors first, to keep the integers small
AddOver(a, b, g) ==
    Norm(a[1] * (b[2] \div g) + b[1] * (a[2] \div g), (a[2] \div g) * b[2])
RAdd(a, b) ==
    IF a[2] = b[2] THEN (IF a[2] = 1 THEN <<a[1] + b[1], 1>> ELSE Norm(a[1] + b[1], a[2]))
    ELSE AddOver(a, b, GCD(a[2], b[2]))
RNeg(a) == <<-a[1], a[2]>>
RSub(a, b) == RAdd(a, RNeg(b))
MulOver(a, b, g1, g2) ==
    <<(a[1] \div g1) * (b[1] \div g2), (a[2] \div g2) * (b[2] \div g1)>>
RMul(a, b) ==
    IF a[1] = 0 \/ b[1] = 0 THEN R0
    ELSE IF a[2] = 1 /\ b[2] = 1 THEN <<a[1] * b[1], 1>>
    ELSE MulOver(a, b, GCD(IAbs(a[1]), b[2]), GCD(IAbs(b[1]), a[2]))
\* a / b for b # 0 (every call site guards the divisor or has a nonzero one)
RDiv(a, b) == RMul(a, IF b[1] < 0 THEN <<-b[2], -b[1]>> ELSE <<b[2], b[1]>>)
\* Order by cross-multiplication; float('inf') is <<1, 0>>
RLt(a, b) ==
    IF a[2] = b[2] /\ a[2] # 0 THEN a[1] < b[1] ELSE a[1] * b[2] < b[1] * a[2]
RLe(a, b) == ~RLt(b, a)
RAbs(a) == <<IAbs(a[1]), a[2]>>
RMax(a, b) == IF RLt(a, b) THEN b ELSE a
RMin(a, b) == IF RLt(b, a) THEN b ELSE a
\* abs(v) < EPSILON
LtEpsilon(a) == a[1] = 0
\* int(v): truncation toward zero
Trunc(a) == IF a[1] >= 0 THEN a[1] \div a[2] ELSE -((-a[1]) \div a[2])

\* floor(sqrt(n)) by bisection: lo * lo <= n < hi * hi
RECURSIVE ISqrtBetween(_, _, _)
ISqrtBetween(n, lo, hi) ==
    IF hi - lo <= 1 THEN lo
    ELSE LET mid == (lo + hi) \div 2
         IN  IF mid * mid <= n THEN ISqrtBetween(n, mid, hi) ELSE ISqrtBetween(n, lo, mid)
ISqrt(n) == ISqrtBetween(n, 0, IF n < 46340 THEN n + 1 ELSE 46341)
\* math.sqrt: exact on squares of rationals, otherwise rounded down to 1/1000
SqrtDen == 1000
SqrtOver(a, p, q) ==
    IF p * p = a[1] /\ q * q = a[2] THEN Norm(p, q)
    ELSE Norm(ISqrt((a[1] * SqrtDen * SqrtDen) \div a[2]), SqrtDen)
Sqrt(a) == SqrtOver(a, ISqrt(a[1]), ISqrt(a[2]))

\* lerp(a, b, t) = a + (b - a) * t
lerp(a, b, t) == RAdd(a, RMul(RSub(b, a), t))
clamp(value, min_val, max_val) == RMax(min_val, RMin(max_val, value))

(***************************************************************************)
(* Vector3                                                                 *)
(***************************************************************************)
Vector3(x, y, z) == [x |-> x, y |-> y, z |-> z]
V3(x, y, z) == Vector3(R(x), R(y), R(z))
VZero == V3(0, 0, 0)
VOne == V3(1, 1, 1)
VUp == V3(0, 1, 0)
VForward == V3(0, 0, 1)

VAdd(a, b) == Vector3(RAdd(a.x, b.x), RAdd(a.y, b.y), RAdd(a.z, b.z))
VSub(a, b) == Vector3(RSub(a.x, b.x), RSub(a.y, b.y), RSub(a.z, b.z))
VScale(a, k) == Vector3(RMul(a.x, k), RMul(a.y, k), RMul(a.z, k))
VMulV(a, b) == Vector3(RMul(a.x, b.x), RMul(a.y, b.y), RMul(a.z, b.z))
VDot(a, b) == RAdd(RAdd(RMul(a.x, b.x), RMul(a.y, b.y)), RMul(a.z, b.z))
VCross(a, b) ==
    Vector3(RSub(RMul(a.y, b.z), RMul(a.z, b.y)),
            RSub(RMul(a.z, b.x), RMul(a.x, b.z)),
            RSub(RMul(a.x, b.y), RMul(a.y, b.x)))
VMagnitudeSquared(a) == VDot(a, a)
VMagnitude(a) == Sqrt(VMagnitudeSquared(a))
VOver(a, mag) ==
    IF LtEpsilon(mag) THEN VZero
    ELSE Vector3(RDiv(a.x, mag), RDiv(a.y, mag), RDiv(a.z, mag))
VNormalized(a) == VOver(a, VMagnitude(a))

(***************************************************************************)
(* Quaternion (x, y, z, w)                                                 *)
(***************************************************************************)
Quaternion(x, y, z, w) == [x |-> x, y |-> y, z |-> z, w |-> w]
Q4(x, y, z, w) == Quaternion(R(x), R(y), R(z), R(w))
QIdentity == Q4(0, 0, 0, 1)

QMul(a, b) ==
    Quaternion(
      RSub(RAdd(RAdd(RMul(a.w, b.x), RMul(a.x, b.w)), RMul(a.y, b.z)), RMul(a.z, b.y)),
      RAdd(RAdd(RSub(RMul(a.w, b.y), RMul(a.x, b.z)), RMul(a.y, b.w)), RMul(a.z, b.x)),
      RAdd(RSub(RAdd(RMul(a.w, b.z), RMul(a.x, b.y)), RMul(a.y, b.x)), RMul(a.z, b.w)),
      RSub(RSub(RSub(RMul(a.w, b.w), RMul(a.x, b.x)), RMul(a.y, b.y)), RMul(a.z, b.z)))

QMagnitudeSquared(q) ==
    RAdd(RAdd(RAdd(RMul(q.x, q.x), RMul(q.y, q.y)), RMul(q.z, q.z)), RMul(q.w, q.w))

QConjugateOver(q, mag_sq) ==
    IF LtEpsilon(mag_sq) THEN QIdentity
    ELSE Quaternion(RDiv(RNeg(q.x), mag_sq), RDiv(RNeg(q.y), mag_sq),
                    RDiv(RNeg(q.z), mag_sq), RDiv(q.w, mag_sq))
QInverse(q) == QConjugateOver(q, QMagnitudeSquared(q))

\* v + ((uv * w) + uuv) * 2 with uv = qv x v, uuv = qv x uv
RotateWith(q, v, qv, uv) == VAdd(v, VScale(VAdd(VScale(uv, q.w), VCross(qv, uv)), R2))
RotateAbout(q, v, qv) == RotateWith(q, v, qv, VCross(qv, v))
rotate_vector(q, v) == RotateAbout(q, v, Vector3(q.x, q.y, q.z))

(***************************************************************************)
(* Matrix4: four rows of four; M(m, i, j) is the source's m[i][j]          *)
(***************************************************************************)
M(m, i, j) == m[i + 1][j + 1]
MatIdentity ==
    << <<R1, R0, R0, R0>>, <<R0, R1, R0, R0>>, <<R0, R0, R1, R0>>, <<R0, R0, R0, R1>> >>
MatZero ==
    << <<R0, R0, R0, R0>>, <<R0, R0, R0, R0>>, <<R0, R0, R0, R0>>, <<R0, R0, R0, R0>> >>
None == <<>>

\* The matrix of Matrix4.from_quaternion from its nine products
QuatMatrix(xx, xy, xz, yy, yz, zz, wx, wy, wz) ==
    << <<RSub(R1, RAdd(yy, zz)), RSub(xy, wz), RAdd(xz, wy), R0>>,
       <<RAdd(xy, wz), RSub(R1, RAdd(xx, zz)), RSub(yz, wx), R0>>,
       <<RSub(xz, wy), RAdd(yz, wx), RSub(R1, RAdd(xx, yy)), R0>>,
       <<R0, R0, R0, R1>> >>

QuatProducts(x, y, z, w, x2, y2, z2) ==
    QuatMatrix(RMul(x, x2), RMul(x, y2), RMul(x, z2), RMul(y, y2), RMul(y, z2),
               RMul(z, z2), RMul(w, x2), RMul(w, y2), RMul(w, z2))

from_quaternion(q) ==
    QuatProducts(q.x, q.y, q.z, q.w, RAdd(q.x, q.x), RAdd(q.y, q.y), RAdd(q.z, q.z))

\* The rows of rot scaled, with the translation as last column
ScaledRows(translation, rot, scale) ==
    << <<RMul(rot[1][1], scale.x), RMul(rot[1][2], scale.x), RMul(rot[1][3], scale.x), translation.x>>,
       <<RMul(rot[2][1], scale.y), RMul(rot[2][2], scale.y), RMul(rot[2][3], scale.y), translation.y>>,
       <<RMul(rot[3][1], scale.z), RMul(rot[3][2], scale.z), RMul(rot[3][3], scale.z), translation.z>>,
       rot[4] >>

trs(translation, rotation, scale) ==
    ScaledRows(translation, from_quaternion(rotation), scale)

MatMul(a, b) ==
    LET c(i, j) == RAdd(RAdd(RAdd(RAdd(R0, RMul(a[i][1], b[1][j])), RMul(a[i][2], b[2][j])),
                             RMul(a[i][3], b[3][j])), RMul(a[i][4], b[4][j]))
        row(i) == <<c(i, 1), c(i, 2), c(i, 3), c(i, 4)>>
    IN  <<row(1), row(2), row(3), row(4)>>

\* m[i][0]*v.x + m[i][1]*v.y + m[i][2]*v.z + m[i][3]
RowDot(m, i, v) ==
    RAdd(RAdd(RAdd(RMul(M(m, i, 0), v.x), RMul(M(m, i, 1), v.y)),
              RMul(M(m, i, 2), v.z)), M(m, i, 3))
\* if abs(w) < EPSILON: w = 1.0
GuardW(w) == IF LtEpsilon(w) THEN R1 ELSE w
PointOver(m, v, w) ==
    Vector3(RDiv(RowDot(m, 0, v), w), RDiv(RowDot(m, 1, v), w), RDiv(RowDot(m, 2, v), w))
transform_point(m, v) == PointOver(m, v, GuardW(RowDot(m, 3, v)))

\* A faulty get_translation that reads the bottom row instead of the last column
get_translation_row(m) == Vector3(M(m, 3, 0), M(m, 3, 1), M(m, 3, 2))

\* Matrix4.get_translation
get_translation(m) == Vector3(M(m, 0, 3), M(m, 1, 3), M(m, 2, 3))

\* The 2x2 sub-determinant m[r0][c0]*m[r1][c1] - m[r1][c0]*m[r0][c1]; s0..s5
\* of Matrix4.inverse take rows 0, 1 and c0..c5 rows 2, 3
Sub2(m, r0, r1, c0, c1) ==
    RSub(RMul(M(m, r0, c0), M(m, r1, c1)), RMul(M(m, r1, c0), M(m, r0, c1)))

\* det = s0*c5 - s1*c4 + s2*c3 + s3*c2 - s4*c1 + s5*c0
DetOf(s0, s1, s2, s3, s4, s5, c0, c1, c2, c3, c4, c5) ==
    RAdd(RSub(RAdd(RAdd(RSub(RMul(s0, c5), RMul(s1, c4)), RMul(s2, c3)), RMul(s3, c2)),
              RMul(s4, c1)), RMul(s5, c0))

\* A faulty entry of the inverse that adds the middle product
InvEntryAllPlus(a, x, b, y, c, z, det) ==
    RDiv(RAdd(RAdd(RMul(a, x), RMul(b, y)), RMul(c, z)), det)

\* One entry of the inverse: (a*x - b*y + c*z) * inv_det
InvEntry(a, x, b, y, c, z, det) ==
    RDiv(RAdd(RSub(RMul(a, x), RMul(b, y)), RMul(c, z)), det)

\* The result of Matrix4.inverse: None when abs(det) < EPSILON
InverseOver(m, s0, s1, s2, s3, s4, s5, c0, c1, c2, c3, c4, c5, det) ==
    LET e(i, j) == M(m, i, j)
        N(i, j) == RNeg(M(m, i, j))
        T(a, x, b, y, c, z) == InvEntry(a, x, b, y, c, z, det)
    IN  IF LtEpsilon(det) THEN None
        ELSE << << T(e(1, 1), c5, e(1, 2), c4, e(1, 3), c3),
                   T(N(0, 1), c5, N(0, 2), c4, N(0, 3), c3),
                   T(e(3, 1), s5, e(3, 2), s4, e(3, 3), s3),
                   T(N(2, 1), s5, N(2, 2), s4, N(2, 3), s3) >>,
                << T(N(1, 0), c5, N(1, 2), c2, N(1, 3), c1),
                   T(e(0, 0), c5, e(0, 2), c2, e(0, 3), c1),
                   T(N(3, 0), s5, N(3, 2), s2, N(3, 3), s1),
                   T(e(2, 0), s5, e(2, 2), s2, e(2, 3), s1) >>,
                << T(e(1, 0), c4, e(1, 1), c2, e(1, 3), c0),
                   T(N(0, 0), c4, N(0, 1), c2, N(0, 3), c0),
                   T(e(3, 0), s4, e(3, 1), s2, e(3, 3), s0),
                   T(N(2, 0), s4, N(2, 1), s2, N(2, 3), s0) >>,
                << T(N(1, 0), c3, N(1, 1), c1, N(1, 2), c0),
                   T(e(0, 0), c3, e(0, 1), c1, e(0, 2), c0),
                   T(N(3, 0), s3, N(3, 1), s1, N(3, 2), s0),
                   T(e(2, 0), s3, e(2, 1), s1, e(2, 2), s0) >> >>

InverseFrom(m, s0, s1, s2, s3, s4, s5, c0, c1, c2, c3, c4, c5) ==
    InverseOver(m, s0, s1, s2, s3, s4, s5, c0, c1, c2, c3, c4, c5,
                DetOf(s0, s1, s2, s3, s4, s5, c0, c1, c2, c3, c4, c5))

\* Matrix4.inverse
MatInverse(m) ==
    InverseFrom(m, Sub2(m, 0, 1, 0, 1), Sub2(m, 0, 1, 0, 2), Sub2(m, 0, 1, 0, 3),
                   Sub2(m, 0, 1, 1, 2), Sub2(m, 0, 1, 1, 3), Sub2(m, 0, 1, 2, 3),
                   Sub2(m, 2, 3, 0, 1), Sub2(m, 2, 3, 0, 2), Sub2(m, 2, 3, 0, 3),
                   Sub2(m, 2, 3, 1, 2), Sub2(m, 2, 3, 1, 3), Sub2(m, 2, 3, 2, 3))

\* Quaternion.from_matrix: the four branches, each from its own s
FromTracePositive(m, s) ==
    Quaternion(RMul(RSub(M(m, 2, 1), M(m, 1, 2)), s),
               RMul(RSub(M(m, 0, 2), M(m, 2, 0)), s),
               RMul(RSub(M(m, 1, 0), M(m, 0, 1)), s),
               RDiv(RQuarter, s))
FromLargestX(m, s) ==
    Quaternion(RMul(RQuarter, s),
               RDiv(RAdd(M(m, 0, 1), M(m, 1, 0)), s),
               RDiv(RAdd(M(m, 0, 2), M(m, 2, 0)), s),
               RDiv(RSub(M(m, 2, 1), M(m, 1, 2)), s))
FromLargestY(m, s) ==
    Quaternion(RDiv(RAdd(M(m, 0, 1), M(m, 1, 0)), s),
               RMul(RQuarter, s),
               RDiv(RAdd(M(m, 1, 2), M(m, 2, 1)), s),
               RDiv(RSub(M(m, 0, 2), M(m, 2, 0)), s))
FromLargestZ(m, s) ==
    Quaternion(RDiv(RAdd(M(m, 0, 2), M(m, 2, 0)), s),
               RDiv(RAdd(M(m, 1, 2), M(m, 2, 1)), s),
               RMul(RQuarter, s),
               RDiv(RSub(M(m, 1, 0), M(m, 0, 1)), s))

\* 2 * sqrt(1 + m[a][a] - m[b][b] - m[c][c])
TwiceSqrt(m, a, b, c) ==
    RMul(R2, Sqrt(RSub(RSub(RAdd(R1, M(m, a, a)), M(m, b, b)), M(m, c, c))))

FromMatrixByTrace(m, trace) ==
    IF RLt(R0, trace) THEN FromTracePositive(m, RDiv(RHalf, Sqrt(RAdd(trace, R1))))
    ELSE IF RLt(M(m, 1, 1), M(m, 0, 0)) /\ RLt(M(m, 2, 2), M(m, 0, 0))
         THEN FromLargestX(m, TwiceSqrt(m, 0, 1, 2))
    ELSE IF RLt(M(m, 2, 2), M(m, 1, 1)) THEN FromLargestY(m, TwiceSqrt(m, 1, 0, 2))
    ELSE FromLargestZ(m, TwiceSqrt(m, 2, 0, 1))

\* Quaternion.from_matrix (trace-based)
from_matrix(m) == FromMatrixByTrace(m, RAdd(RAdd(M(m, 0, 0), M(m, 1, 1)), M(m, 2, 2)))

\* Quaternion.look_rotation(forward, up): the rotation matrix with columns
\* right, actual_up, forward, turned into a quaternion
LookFromAxes(right, actual_up, forward) ==
    from_matrix(<< <<right.x, actual_up.x, forward.x, R0>>,
                   <<right.y, actual_up.y, forward.y, R0>>,
                   <<right.z, actual_up.z, forward.z, R0>>,
                   <<R0, R0, R0, R1>> >>)
LookFromRight(forward, right) == LookFromAxes(right, VCross(forward, right), forward)
LookFromForward(forward, up) == LookFromRight(forward, VNormalized(VCross(up, forward)))
look_rotation(forward0, up) == LookFromForward(VNormalized(forward0), up)

\* Quaternion.from_euler, order 'xyz', for angles that are multiples of pi:
\* HalfTurns(k) is the angle k*pi, whose half angle has cos, sin in {0, 1, -1}
CosHalf(k) == CASE k % 4 = 0 -> R1 [] k % 4 = 2 -> R(-1) [] OTHER -> R0
SinHalf(k) == CASE k % 4 = 1 -> R1 [] k % 4 = 3 -> R(-1) [] OTHER -> R0
EulerProducts(cx, sx, cy, sy, cz, sz) ==
    Quaternion(RAdd(RMul(RMul(sx, cy), cz), RMul(RMul(cx, sy), sz)),
               RSub(RMul(RMul(cx, sy), cz), RMul(RMul(sx, cy), sz)),
               RAdd(RMul(RMul(cx, cy), sz), RMul(RMul(sx, sy), cz)),
               RSub(RMul(RMul(cx, cy), cz), RMul(RMul(sx, sy), sz)))
from_euler(kx, ky, kz) ==
    EulerProducts(CosHalf(kx), SinHalf(kx), CosHalf(ky), SinHalf(ky), CosHalf(kz), SinHalf(kz))

(***************************************************************************)
(* Bounds and input sets                                                   *)
(***************************************************************************)
NumNodes == 3          \* Transform objects constructed
MaxOps == 4            \* calls per run of Spec
MaxPoseOps == 3        \* calls per run of SpecPose
Nodes == 1..NumNodes
NoParent == 0

PosSet == {V3(1, 0, 0), V3(0, 1, 0)}
RotSet == {Q4(0, 1, 0, 0)}
ScaleSet == {V3(2, 1, 1), V3(0, 1, 1)}
EulerSet == {<<0, 1, 0>>}
TranslateSet == {V3(0, 0, 1)}

(***************************************************************************)
(* State                                                                   *)
(***************************************************************************)
VARIABLES
    position, rotation, scale,      \* Transform._position/_rotation/_scale
    parent, children,               \* Transform._parent (0 = None), _children
    local_matrix, world_matrix,     \* cached matrices (None before first read)
    local_dirty, world_dirty,       \* dirty flags
    exc,                            \* exception raised by the last call
    lastOp,                         \* the last call: name, receiver, argument, result
    ops,                            \* number of calls made
    cam,                            \* the Camera's own fields
    cam_aim,                        \* the last set_look_at arguments still in force
    char_buffer, depth_buffer, color_buffer,   \* WireframeRenderer grids
    draws,                          \* draw calls since the last clear
    rend,                           \* WireframeRenderer's size, camera, mode, flags
    bounds_mesh                     \* a Mesh: its vertex positions and cached bounds

tvars == <<position, rotation, scale, parent, children,
           local_matrix, world_matrix, local_dirty, world_dirty>>
rvars == <<char_buffer, depth_buffer, color_buffer, draws, rend, bounds_mesh>>
cvars == <<cam, cam_aim>>
vars == <<position, rotation, scale, parent, children,
          local_matrix, world_matrix, local_dirty, world_dirty, exc, lastOp, ops,
          cam, cam_aim, char_buffer, depth_buffer, color_buffer, draws, rend,
          bounds_mesh>>

NoExc == "none"
Op(name, n, arg, ret) == [op |-> name, n |-> n, arg |-> arg, ret |-> ret]

\* The Transform objects as one value, so that nested calls compose
Heap ==
    [position |-> position, rotation |-> rotation, scale |-> scale,
     parent |-> parent, children |-> children,
     local_matrix |-> local_matrix, world_matrix |-> world_matrix,
     local_dirty |-> local_dirty, world_dirty |-> world_dirty, exc |-> NoExc]

Store(h) ==
    /\ position' = h.position
    /\ rotation' = h.rotation
    /\ scale' = h.scale
    /\ parent' = h.parent
    /\ children' = h.children
    /\ local_matrix' = h.local_matrix
    /\ world_matrix' = h.world_matrix
    /\ local_dirty' = h.local_dirty
    /\ world_dirty' = h.world_dirty
    /\ exc' = h.exc

Raise(h, e) == [h EXCEPT !.exc = e]
Ok(h) == h.exc = NoExc

\* list.remove(x): drop the first occurrence
RECURSIVE RemoveFirst(_, _)
RemoveFirst(s, x) ==
    IF s = <<>> THEN <<>>
    ELSE IF Head(s) = x THEN Tail(s)
    ELSE <<Head(s)>> \o RemoveFirst(Tail(s), x)
InSeq(s, x) == \E i \in 1..Len(s) : s[i] = x

(***************************************************************************)
(* Transform: dirty flags                                                  *)
(***************************************************************************)
\* Transform._mark_world_dirty: self, then every child in list order.  A node
\* met again while still on the call stack means unbounded recursion: Python
\* raises RecursionError and the nodes not yet visited stay unmarked.
RECURSIVE MarkNode(_, _, _)
RECURSIVE MarkKids(_, _, _, _)
MarkNode(h, n, stack) ==
    IF n \in stack THEN Raise(h, "RecursionError")
    ELSE MarkKids([h EXCEPT !.world_dirty[n] = TRUE], n, 1, stack \cup {n})
MarkKids(h, n, i, stack) ==
    IF ~Ok(h) \/ i > Len(h.children[n]) THEN h
    ELSE MarkKids(MarkNode(h, h.children[n][i], stack), n, i + 1, stack)

\* A faulty _mark_world_dirty that forgets the children
mark_world_dirty_shallow(h, n) == [h EXCEPT !.world_dirty[n] = TRUE]

mark_world_dirty(h, n) == MarkNode(h, n, {})

\* A faulty _mark_dirty that forgets the local flag
mark_dirty_world_only(h, n) == mark_world_dirty(h, n)

\* Transform._mark_dirty
mark_dirty(h, n) == mark_world_dirty([h EXCEPT !.local_dirty[n] = TRUE], n)

(***************************************************************************)
(* Transform: matrix properties                                            *)
(***************************************************************************)
\* A faulty local_matrix getter that recomputes but leaves the flag set
LocalMatrixKeepFlag(h, n) ==
    IF h.local_dirty[n] \/ h.local_matrix[n] = None
    THEN [h EXCEPT !.local_matrix[n] = trs(h.position[n], h.rotation[n], h.scale[n])]
    ELSE h

\* Transform.local_matrix (getter): the heap after the read; the value read is
\* the local_matrix[n] of the result
LocalMatrix(h, n) ==
    IF h.local_dirty[n] \/ h.local_matrix[n] = None
    THEN [h EXCEPT !.local_matrix[n] = trs(h.position[n], h.rotation[n], h.scale[n]),
                   !.local_dirty[n] = FALSE]
    ELSE h

\* Transform.world_matrix (getter): the heap after the read; the value read is
\* the world_matrix[n] of the result.  The parent is read before the node's
\* own local matrix; a dirty chain that runs into a cycle recurses without end.
\* The root branch: world matrix = local matrix
RootWorld(h1, n) ==
    [h1 EXCEPT !.world_matrix[n] = h1.local_matrix[n], !.world_dirty[n] = FALSE]

\* The non-root branch, after the parent's and the own local matrix were read
ChildWorld(h2, n, p) ==
    [h2 EXCEPT !.world_matrix[n] = MatMul(h2.world_matrix[p], h2.local_matrix[n]),
               !.world_dirty[n] = FALSE]

\* The non-root branch, after the parent's world matrix was read
AfterParentWorld(h1, n, p) ==
    IF ~Ok(h1) THEN h1 ELSE ChildWorld(LocalMatrix(h1, n), n, p)

RECURSIVE WorldMatrixRec(_, _, _)
WorldMatrixRec(h, n, stack) ==
    IF h.world_dirty[n] \/ h.world_matrix[n] = None THEN
        IF n \in stack THEN Raise(h, "RecursionError")
        ELSE IF h.parent[n] = NoParent THEN RootWorld(LocalMatrix(h, n), n)
        ELSE AfterParentWorld(WorldMatrixRec(h, h.parent[n], stack \cup {n}), n, h.parent[n])
    ELSE h

WorldMatrix(h, n) == WorldMatrixRec(h, n, {})

\* Transform.world_rotation (getter): product of the rotations up the chain;
\* [raised, val]
\* The non-root branch, after the parent's world rotation was read
AfterParentRotation(up, q) ==
    IF up.raised THEN up ELSE [raised |-> FALSE, val |-> QMul(up.val, q)]

RECURSIVE WorldRotationRec(_, _, _)
WorldRotationRec(h, n, stack) ==
    IF n \in stack THEN [raised |-> TRUE, val |-> QIdentity]
    ELSE IF h.parent[n] = NoParent THEN [raised |-> FALSE, val |-> h.rotation[n]]
    ELSE AfterParentRotation(WorldRotationRec(h, h.parent[n], stack \cup {n}),
                             h.rotation[n])

WorldRotation(h, n) == WorldRotationRec(h, n, {})

(***************************************************************************)
(* Transform: setters                                                      *)
(***************************************************************************)
\* Transform.position (setter)
PositionSet(h, n, value) == mark_dirty([h EXCEPT !.position[n] = value], n)

\* Transform.rotation (setter)
RotationSet(h, n, value) == mark_dirty([h EXCEPT !.rotation[n] = value], n)

\* Transform.scale (setter)
ScaleSetter(h, n, value) == mark_dirty([h EXCEPT !.scale[n] = value], n)

\* A faulty world_position setter that stores the world value as the local one
WorldPositionSetLocal(h, n, value) == PositionSet(h, n, value)

\* The parented branch of the world_position setter, after parent.world_matrix
\* was inverted
PositionFromInverse(h1, n, value, parent_inv) ==
    IF parent_inv # None THEN PositionSet(h1, n, transform_point(parent_inv, value))
    ELSE h1

\* The parented branch of the world_position setter, after parent.world_matrix
\* was read
PositionUnderParent(h1, n, value, p) ==
    IF ~Ok(h1) THEN h1
    ELSE PositionFromInverse(h1, n, value, MatInverse(h1.world_matrix[p]))

\* Transform.world_position (setter)
WorldPositionSet(h, n, value) ==
    IF h.parent[n] # NoParent
    THEN PositionUnderParent(WorldMatrix(h, h.parent[n]), n, value, h.parent[n])
    ELSE PositionSet(h, n, value)

\* The parented branch of the world_rotation setter, after
\* parent.world_rotation was read
RotationUnderParent(h, n, value, pr) ==
    IF pr.raised THEN Raise(h, "RecursionError")
    ELSE RotationSet(h, n, QMul(QInverse(pr.val), value))

\* Transform.world_rotation (setter)
WorldRotationSet(h, n, value) ==
    IF h.parent[n] # NoParent
    THEN RotationUnderParent(h, n, value, WorldRotation(h, h.parent[n]))
    ELSE RotationSet(h, n, value)

\* if self._parent: self._parent._children.remove(self)
DetachFrom(h, n, old) ==
    IF old # NoParent THEN [h EXCEPT !.children[old] = RemoveFirst(@, n)] ELSE h

\* self._parent = value; if value: value._children.append(self)
AttachTo(h1, n, value) ==
    IF value # NoParent
    THEN [h1 EXCEPT !.parent[n] = value, !.children[value] = Append(@, n)]
    ELSE [h1 EXCEPT !.parent[n] = value]

\* A faulty parent setter that leaves the node in the old parent's list
ParentSetNoDetach(h, n, value) ==
    IF h.parent[n] = value THEN h
    ELSE mark_world_dirty(AttachTo(h, n, value), n)

\* Transform.parent (setter)
ParentSet(h, n, value) ==
    IF h.parent[n] = value THEN h
    ELSE IF h.parent[n] # NoParent /\ ~InSeq(h.children[h.parent[n]], n)
         THEN Raise(h, "ValueError")
    ELSE mark_world_dirty(AttachTo(DetachFrom(h, n, h.parent[n]), n, value), n)

\* set_parent with world_position_stays, after self.world_position = world_pos
RestoreRotation(h3, n, world_rot) ==
    IF ~Ok(h3) THEN h3 ELSE WorldRotationSet(h3, n, world_rot)

\* set_parent with world_position_stays, after self.parent = parent
RestorePose(h2, n, world_pos, world_rot) ==
    IF ~Ok(h2) THEN h2
    ELSE RestoreRotation(WorldPositionSet(h2, n, world_pos), n, world_rot)

\* set_parent with world_position_stays, after world_rotation was read
ReparentKeeping(h1, n, p, wr) ==
    IF wr.raised THEN Raise(h1, "RecursionError")
    ELSE RestorePose(ParentSet(h1, n, p), n, get_translation(h1.world_matrix[n]), wr.val)

\* set_parent with world_position_stays, after world_position was read
ReparentFrom(h1, n, p) ==
    IF ~Ok(h1) THEN h1 ELSE ReparentKeeping(h1, n, p, WorldRotation(h1, n))

\* Transform.set_parent(parent, world_position_stays)
set_parent(h, n, p, world_position_stays) ==
    IF world_position_stays THEN ReparentFrom(WorldMatrix(h, n), n, p)
    ELSE ParentSet(h, n, p)

(***************************************************************************)
(* Transform: operations, one action per public call                       *)
(***************************************************************************)
Step(name, n, arg, ret, h) ==
    /\ ops' = ops + 1
    /\ lastOp' = Op(name, n, arg, ret)
    /\ Store(h)
    /\ UNCHANGED <<cvars, rvars>>

SetPosition(n, v) == Step("position", n, v, None, PositionSet(Heap, n, v))

SetRotation(n, q) == Step("rotation", n, q, None, RotationSet(Heap, n, q))

SetScale(n, v) == Step("scale", n, v, None, ScaleSetter(Heap, n, v))

\* Transform.translate(translation, space)
Translate(n, v, space) ==
    Step("translate", n, <<v, space>>, None,
         PositionSet(Heap, n, VAdd(position[n],
                                   IF space = "world" THEN v
                                   ELSE rotate_vector(rotation[n], v))))

\* The composition of Transform.rotate: rotation * self.rotation in world
\* space, self.rotation * rotation otherwise
Composed(r, q, space) == IF space = "world" THEN QMul(r, q) ELSE QMul(q, r)

\* Transform.rotate(euler_angles, space)
Rotate(n, e, space) ==
    Step("rotate", n, <<e, space>>, None,
         RotationSet(Heap, n, Composed(from_euler(e[1], e[2], e[3]), rotation[n], space)))

\* Transform.scale_by(scale_factor)
ScaleBy(n, f) ==
    Step("scale_by", n, f, None, ScaleSetter(Heap, n, VMulV(scale[n], f)))

\* Transform.reset / Transform.reset_local
Reset(n) ==
    Step("reset", n, None, None,
         mark_dirty([Heap EXCEPT !.position[n] = VZero,
                                 !.rotation[n] = QIdentity,
                                 !.scale[n] = VOne], n))

\* Transform.copy_from(other)
CopyFrom(n, other) ==
    Step("copy_from", n, other, None,
         mark_dirty([Heap EXCEPT !.position[n] = position[other],
                                 !.rotation[n] = rotation[other],
                                 !.scale[n] = scale[other]], n))

\* Transform.set_position_and_rotation(position, rotation)
SetPositionAndRotation(n, v, q) ==
    Step("set_position_and_rotation", n, <<v, q>>, None,
         mark_dirty([Heap EXCEPT !.position[n] = v, !.rotation[n] = q], n))

\* transform.parent = value
\* transform.parent = value; the result slot keeps the parent it had
SetParentProp(n, p) == Step("parent", n, p, parent[n], ParentSet(Heap, n, p))

\* The world pose a caller reads through world_position and world_rotation
PoseOf(h1, n, wr) ==
    IF ~Ok(h1) \/ wr.raised THEN None
    ELSE <<get_translation(h1.world_matrix[n]), wr.val>>
WorldPose(h, n) == PoseOf(WorldMatrix(h, n), n, WorldRotation(h, n))

\* transform.set_parent(p, world_position_stays); the result slot keeps the
\* world pose read immediately before the call
SetParent(n, p, stays) ==
    Step("set_parent", n, <<p, stays>>, WorldPose(Heap, n), set_parent(Heap, n, p, stays))

\* m = transform.local_matrix
LocalMatrixRead(n, h) == Step("local_matrix", n, local_dirty[n], h.local_matrix[n], h)
ReadLocalMatrix(n) == LocalMatrixRead(n, LocalMatrix(Heap, n))

\* m = transform.world_matrix
WorldMatrixRead(n, h) ==
    Step("world_matrix", n, world_dirty[n], IF Ok(h) THEN h.world_matrix[n] ELSE None, h)
ReadWorldMatrix(n) == WorldMatrixRead(n, WorldMatrix(Heap, n))

\* v = transform.world_position
WorldPositionRead(n, h) ==
    Step("world_position", n, None,
         IF Ok(h) THEN get_translation(h.world_matrix[n]) ELSE None, h)
ReadWorldPosition(n) == WorldPositionRead(n, WorldMatrix(Heap, n))


(***************************************************************************)
(* Camera                                                                  *)
(***************************************************************************)
CamNode == 1           \* the Transform the Camera constructs for itself

\* The ends of the range the fov setter clamps to, 0.01 and PI - 0.01 radians,
\* written as the whole degrees below and above every other field of view
FovMin == 0
FovMax == 180

\* math.tan(fov / 2) for the fields of view the model uses (fov in degrees):
\* tan(30 deg) = 0.57735..., tan(45 deg) = 1, tan(0.005) = 0.0050...,
\* tan(PI / 2 - 0.005) = 199.99...
TanHalf(fov) ==
    IF fov = 90 THEN R1
    ELSE IF fov = FovMin THEN Frac(1, 200)
    ELSE IF fov = FovMax THEN R(200)
    ELSE Frac(57735, 100000)

\* Matrix4.perspective(fov, aspect, near, far), given tan(fov / 2)
PerspectiveOver(tan_half_fov, aspect, near, far) ==
    << <<RDiv(R1, RMul(aspect, tan_half_fov)), R0, R0, R0>>,
       <<R0, RDiv(R1, tan_half_fov), R0, R0>>,
       <<R0, R0, RDiv(RNeg(RAdd(far, near)), RSub(far, near)),
                 RDiv(RNeg(RMul(RMul(R2, far), near)), RSub(far, near))>>,
       <<R0, R0, R(-1), R0>> >>
perspective(fov, aspect, near, far) == PerspectiveOver(TanHalf(fov), aspect, near, far)

\* Matrix4.orthographic(left, right, bottom, top, near, far)
orthographic(left, right, bottom, top, near, far) ==
    << <<RDiv(R2, RSub(right, left)), R0, R0,
         RDiv(RNeg(RAdd(right, left)), RSub(right, left))>>,
       <<R0, RDiv(R2, RSub(top, bottom)), R0,
         RDiv(RNeg(RAdd(top, bottom)), RSub(top, bottom))>>,
       <<R0, R0, RDiv(R(-2), RSub(far, near)),
         RDiv(RNeg(RAdd(far, near)), RSub(far, near))>>,
       <<R0, R0, R0, R1>> >>

\* Camera.__init__
CameraInit ==
    [fov |-> 60, aspect |-> Frac(16, 9), near |-> Frac(1, 10), far |-> R(1000),
     ortho_size |-> R(5), is_orthographic |-> FALSE,
     projection_matrix |-> None, projection_dirty |-> TRUE]

\* Camera._update_projection: the matrix for the camera's mode
ProjectionFor(c, half_width, half_height) ==
    IF c.is_orthographic
    THEN orthographic(RNeg(half_width), half_width, RNeg(half_height), half_height,
                      c.near, c.far)
    ELSE perspective(c.fov, c.aspect, c.near, c.far)

\* Camera.projection_matrix (getter): the camera after the read
ProjectionMatrix(c) ==
    IF c.projection_dirty \/ c.projection_matrix = None
    THEN [c EXCEPT !.projection_matrix =
                       ProjectionFor(c, RMul(c.ortho_size, c.aspect), c.ortho_size),
                   !.projection_dirty = FALSE]
    ELSE c

\* A faulty fallback that answers a missing inverse with the zero matrix
OrZero(inv) == IF inv # None THEN inv ELSE MatZero

\* self.transform.world_matrix.inverse or Matrix4.identity()
OrIdentity(inv) == IF inv # None THEN inv ELSE MatIdentity

\* Camera.view_matrix (getter) on the heap after reading transform.world_matrix
ViewMatrixOf(h) == OrIdentity(MatInverse(h.world_matrix[CamNode]))

\* The tuple world_to_screen returns for a point it does not reject
ScreenPoint(view_pos, clip_pos, screen_width, screen_height) ==
    << RMul(RMul(RAdd(clip_pos.x, R1), RHalf), R(screen_width)),
       RMul(RMul(RSub(R1, clip_pos.y), RHalf), R(screen_height)),
       RNeg(view_pos.z) >>

\* A faulty rejection test: only view-space z > 0 is behind the camera
FromViewStrict(c, view_pos, screen_width, screen_height) ==
    IF RLt(R0, view_pos.z) THEN None
    ELSE ScreenPoint(view_pos, transform_point(c.projection_matrix, view_pos),
                     screen_width, screen_height)

\* world_to_screen after view_pos was computed: if view_pos.z >= 0: return None
FromView(c, view_pos, screen_width, screen_height) ==
    IF RLe(R0, view_pos.z) THEN None
    ELSE ScreenPoint(view_pos, transform_point(c.projection_matrix, view_pos),
                     screen_width, screen_height)

\* A faulty world_to_screen that rejects only view-space z > 0
WorldToScreenValStrict(h, c, world_pos, screen_width, screen_height) ==
    FromViewStrict(c, transform_point(ViewMatrixOf(h), world_pos),
                   screen_width, screen_height)

\* Camera.world_to_screen(world_pos, screen_width, screen_height): the value
\* returned, given the heap and camera after their lazy reads
WorldToScreenVal(h, c, world_pos, screen_width, screen_height) ==
    FromView(c, transform_point(ViewMatrixOf(h), world_pos), screen_width, screen_height)

\* look_at after the direction to the target was computed
LookAlong(h1, n, direction, up) ==
    IF LtEpsilon(VMagnitudeSquared(direction)) THEN h1
    ELSE WorldRotationSet(h1, n, look_rotation(direction, up))

\* look_at after self.world_position was read
LookFrom(h1, n, target, up) ==
    IF ~Ok(h1) THEN h1
    ELSE LookAlong(h1, n, VSub(target, get_translation(h1.world_matrix[n])), up)

\* Transform.look_at(target, up) on the camera's transform
look_at(h, n, target, up) == LookFrom(WorldMatrix(h, n), n, target, up)

CamStep(name, arg, ret, h, c, aim) ==
    /\ ops' = ops + 1
    /\ lastOp' = Op(name, CamNode, arg, ret)
    /\ Store(h)
    /\ cam' = c
    /\ cam_aim' = aim
    /\ UNCHANGED rvars

\* set_look_at after self.transform.world_position = eye
LookAfterMove(h1, target, up) ==
    IF Ok(h1) THEN look_at(h1, CamNode, target, up) ELSE h1

SetLookAtDone(eye, target, up, h2) ==
    CamStep("set_look_at", <<eye, target, up>>, None, h2, cam,
            IF Ok(h2) THEN <<eye, target, up>> ELSE None)

\* Camera.set_look_at(eye, target, up)
CamSetLookAt(eye, target, up) ==
    SetLookAtDone(eye, target, up,
                  LookAfterMove(WorldPositionSet(Heap, CamNode, eye), target, up))

\* camera.aspect = value
CamSetAspect(value) ==
    CamStep("aspect", value, None, Heap,
            [cam EXCEPT !.aspect = RMax(Frac(1, 100), value), !.projection_dirty = TRUE],
            cam_aim)

\* camera.near_clip = value
CamSetNear(value) ==
    CamStep("near_clip", value, None, Heap,
            [cam EXCEPT !.near = RMax(Frac(1, 1000), value), !.projection_dirty = TRUE],
            cam_aim)

\* camera.far_clip = value
CamSetFar(value) ==
    CamStep("far_clip", value, None, Heap,
            [cam EXCEPT !.far = RMax(RAdd(cam.near, Frac(1, 100)), value),
                        !.projection_dirty = TRUE],
            cam_aim)

\* camera.transform.scale = value
CamSetScale(value) ==
    CamStep("scale", value, None, ScaleSetter(Heap, CamNode, value), cam, None)

\* camera.transform.position = value
CamSetPosition(value) ==
    CamStep("position", value, None, PositionSet(Heap, CamNode, value), cam, None)

\* camera.world_to_screen(world_pos, screen_width, screen_height): the
\* projection matrix is read only when the point is not rejected
WorldToScreenDone(world_pos, screen_width, screen_height, h, c, ret) ==
    CamStep("world_to_screen", <<world_pos, screen_width, screen_height>>, ret, h,
            IF ret = None THEN cam ELSE c, cam_aim)
WorldToScreenRead(world_pos, screen_width, screen_height, h, c) ==
    WorldToScreenDone(world_pos, screen_width, screen_height, h, c,
                      WorldToScreenVal(h, c, world_pos, screen_width, screen_height))
WorldToScreen(world_pos, screen_width, screen_height) ==
    WorldToScreenRead(world_pos, screen_width, screen_height,
                      WorldMatrix(Heap, CamNode), ProjectionMatrix(cam))

(***************************************************************************)
(* WireframeRenderer: grids, _draw_edge, _draw_point                       *)
(***************************************************************************)
Width == 3             \* renderer width in cells
Height == 2            \* renderer height in cells
MaxDraws == 2          \* draw calls per run of SpecRender
Inf == <<1, 0>>        \* float('inf'): above every finite value under RLt
DepthTesting == TRUE   \* WireframeRenderer._depth_testing, never reassigned
PointChar == "point"   \* WireframeRenderer._point_char

Buffers == [char |-> char_buffer, depth |-> depth_buffer, color |-> color_buffer]

\* Mesh.__init__: no vertices, both corners of the box at zero, box not computed
MeshInit ==
    [vertices |-> <<>>, bounds_min |-> VZero, bounds_max |-> VZero, bounds_dirty |-> TRUE]

\* WireframeRenderer.__init__(width, height), before its clear(): no camera,
\* wireframe mode, backface culling on
RendererInit ==
    [width |-> Width, height |-> Height, camera |-> FALSE,
     render_mode |-> "WIREFRAME", backface_culling |-> TRUE]

\* A faulty clear() that allocates the depth grid one row short
ClearedGridShort(w, h, ch, col) ==
    [char |-> [y \in 1..h |-> [x \in 1..w |-> ch]],
     depth |-> [y \in 1..(h - 1) |-> [x \in 1..w |-> Inf]],
     color |-> [y \in 1..h |-> [x \in 1..w |-> col]]]

\* The grids clear() allocates: range(height) rows of range(width) cells, so
\* none for a size below 1
ClearedGrid(w, h, ch, col) ==
    [char |-> [y \in 1..h |-> [x \in 1..w |-> ch]],
     depth |-> [y \in 1..h |-> [x \in 1..w |-> Inf]],
     color |-> [y \in 1..h |-> [x \in 1..w |-> col]]]

\* WireframeRenderer.clear(char, color)
ClearedBuffers(ch, col) == ClearedGrid(rend.width, rend.height, ch, col)

\* 0 <= x < self.width and 0 <= y < self.height
InGrid(x, y) == 0 <= x /\ x < rend.width /\ 0 <= y /\ y < rend.height

\* WireframeRenderer._get_edge_char(x0, y0, x1, y1, dx, dy)
get_edge_char(x0, y0, x1, y1, dx, dy) ==
    IF dx = 0 THEN "vertical"
    ELSE IF dy = 0 THEN "horizontal"
    ELSE IF 2 * dy < dx THEN "horizontal"
    ELSE IF dy < 2 * dx THEN
        IF (x1 > x0 /\ y1 < y0) \/ (x1 < x0 /\ y1 > y0)
        THEN "diagonal_up" ELSE "diagonal_down"
    ELSE "vertical"

\* The loop of _draw_edge: the pixels it tests, in order, each with its
\* interpolated depth and its glyph (cells outside the grid are skipped)
RECURSIVE EdgeLoop(_, _, _, _, _)
EdgeLoop(e, x0, y0, err, step) ==
    LET x1 == Trunc(e.v2.screen_x)
        y1 == Trunc(e.v2.screen_y)
        xs == Trunc(e.v1.screen_x)
        ys == Trunc(e.v1.screen_y)
        dx == IAbs(x1 - xs)
        dy == IAbs(y1 - ys)
        sx == IF xs < x1 THEN 1 ELSE -1
        sy == IF ys < y1 THEN 1 ELSE -1
        max_steps == (IF dx > dy THEN dx ELSE dy) + 1
        t == Frac(step, max_steps)
        here == IF InGrid(x0, y0)
                THEN << [x |-> x0, y |-> y0,
                         depth |-> lerp(e.v1.depth, e.v2.depth, t),
                         char |-> get_edge_char(x0, y0, x1, y1, dx, dy),
                         color |-> e.color] >>
                ELSE <<>>
        e2 == 2 * err
        stepx == e2 > -dy
        stepy == e2 < dx
    IN  IF step >= max_steps THEN <<>>
        ELSE IF x0 = x1 /\ y0 = y1 THEN here
        ELSE here \o EdgeLoop(e,
                              IF stepx THEN x0 + sx ELSE x0,
                              IF stepy THEN y0 + sy ELSE y0,
                              err - (IF stepx THEN dy ELSE 0) + (IF stepy THEN dx ELSE 0),
                              step + 1)

EdgePixels(e) ==
    LET x0 == Trunc(e.v1.screen_x)
        y0 == Trunc(e.v1.screen_y)
        x1 == Trunc(e.v2.screen_x)
        y1 == Trunc(e.v2.screen_y)
    IN  EdgeLoop(e, x0, y0, IAbs(x1 - x0) - IAbs(y1 - y0), 0)

\* A faulty write that skips the depth test: the last draw wins
WritePixelUntested(b, px) ==
    [b EXCEPT !.char[px.y + 1][px.x + 1] = px.char,
              !.depth[px.y + 1][px.x + 1] = px.depth,
              !.color[px.y + 1][px.x + 1] = px.color]

\* A faulty write that also lets a pixel of equal depth through
WritePixelOrEqual(b, px) ==
    IF ~DepthTesting \/ RLe(px.depth, b.depth[px.y + 1][px.x + 1])
    THEN [b EXCEPT !.char[px.y + 1][px.x + 1] = px.char,
                   !.depth[px.y + 1][px.x + 1] = px.depth,
                   !.color[px.y + 1][px.x + 1] = px.color]
    ELSE b

\* The depth-tested write of _draw_edge and _draw_point
WritePixel(b, px) ==
    IF ~DepthTesting \/ RLt(px.depth, b.depth[px.y + 1][px.x + 1])
    THEN [b EXCEPT !.char[px.y + 1][px.x + 1] = px.char,
                   !.depth[px.y + 1][px.x + 1] = px.depth,
                   !.color[px.y + 1][px.x + 1] = px.color]
    ELSE b

RECURSIVE WritePixels(_, _)
WritePixels(b, pxs) ==
    IF pxs = <<>> THEN b ELSE WritePixels(WritePixel(b, Head(pxs)), Tail(pxs))

\* WireframeRenderer._draw_edge(edge)
draw_edge(b, e) == WritePixels(b, EdgePixels(e))

\* The pixel _draw_point tests (none when outside the grid)
PointPixels(pv, color) ==
    LET x == Trunc(pv.screen_x)
        y == Trunc(pv.screen_y)
    IN  IF InGrid(x, y)
        THEN << [x |-> x, y |-> y, depth |-> pv.depth, char |-> PointChar, color |-> color] >>
        ELSE <<>>

\* WireframeRenderer._draw_point(pv, color)
draw_point(b, pv, color) == WritePixels(b, PointPixels(pv, color))

ScreenXs == {R(-1), R0, Frac(5, 2)}
ScreenYs == {R0, Frac(3, 2)}
DepthSet == {R(3), R(7)}
ColorSet == {"red", "blue"}
PVertices ==
    [screen_x : ScreenXs, screen_y : ScreenYs, depth : DepthSet]
PEdges == [v1 : PVertices, v2 : PVertices, color : ColorSet]

RStep(name, arg, b, d) ==
    /\ ops' = ops
    /\ lastOp' = Op(name, 0, arg, None)
    /\ char_buffer' = b.char
    /\ depth_buffer' = b.depth
    /\ color_buffer' = b.color
    /\ draws' = d
    /\ UNCHANGED <<tvars, exc, cvars, rend, bounds_mesh>>

DrawEdge(e) ==
    /\ Len(draws) < MaxDraws
    /\ RStep("_draw_edge", e, draw_edge(Buffers, e), Append(draws, EdgePixels(e)))

DrawPoint(pv, color) ==
    /\ Len(draws) < MaxDraws
    /\ RStep("_draw_point", <<pv, color>>, draw_point(Buffers, pv, color),
             Append(draws, PointPixels(pv, color)))

Clear ==
    /\ draws # <<>>
    /\ RStep("clear", None, ClearedBuffers(" ", "none"), <<>>)

(***************************************************************************)
(* Specifications                                                          *)
(***************************************************************************)
Init ==
    /\ position = [n \in Nodes |-> VZero]
    /\ rotation = [n \in Nodes |-> QIdentity]
    /\ scale = [n \in Nodes |-> VOne]
    /\ parent = [n \in Nodes |-> NoParent]
    /\ children = [n \in Nodes |-> <<>>]
    /\ local_matrix = [n \in Nodes |-> None]
    /\ world_matrix = [n \in Nodes |-> None]
    /\ local_dirty = [n \in Nodes |-> TRUE]
    /\ world_dirty = [n \in Nodes |-> TRUE]
    /\ exc = NoExc
    /\ lastOp = Op("init", 0, None, None)
    /\ ops = 0
    /\ cam = CameraInit
    /\ cam_aim = None
    /\ rend = RendererInit
    /\ bounds_mesh = MeshInit
    /\ char_buffer = ClearedBuffers(" ", "none").char
    /\ depth_buffer = ClearedBuffers(" ", "none").depth
    /\ color_buffer = ClearedBuffers(" ", "none").color
    /\ draws = <<>>

\* The scene graph: pose setters, reset, copy_from, re-parenting and reads
Next ==
    /\ ops < MaxOps
    /\ \/ \E n \in Nodes, v \in PosSet : SetPosition(n, v)
       \/ \E n \in Nodes, q \in RotSet : SetRotation(n, q)
       \/ \E n \in Nodes, v \in ScaleSet : SetScale(n, v)
       \/ \E n \in Nodes : Reset(n)
       \/ \E n \in Nodes : \E other \in Nodes \ {n} : CopyFrom(n, other)
       \/ \E n \in Nodes, p \in Nodes \cup {NoParent} : SetParentProp(n, p)
       \/ \E n \in Nodes : ReadLocalMatrix(n)
       \/ \E n \in Nodes : ReadWorldMatrix(n)
       \/ \E n \in Nodes : ReadWorldPosition(n)

Spec == Init /\ [][Next]_vars

\* Every pose mutation and set_parent
NextPose ==
    /\ ops < MaxPoseOps
    /\ \/ \E n \in Nodes, v \in PosSet : SetPosition(n, v)
       \/ \E n \in Nodes, q \in RotSet : SetRotation(n, q)
       \/ \E n \in Nodes, v \in ScaleSet : SetScale(n, v)
       \/ \E n \in Nodes, v \in TranslateSet, space \in {"self", "world"} : Translate(n, v, space)
       \/ \E n \in Nodes, e \in EulerSet, space \in {"self", "world"} : Rotate(n, e, space)
       \/ \E n \in Nodes, v \in ScaleSet : ScaleBy(n, v)
       \/ \E n \in Nodes : Reset(n)
       \/ \E n \in Nodes : \E other \in Nodes \ {n} : CopyFrom(n, other)
       \/ \E n \in Nodes, v \in PosSet, q \in RotSet : SetPositionAndRotation(n, v, q)
       \/ \E n \in Nodes, p \in Nodes \cup {NoParent} : SetParentProp(n, p)
       \/ \E n \in Nodes, p \in Nodes \cup {NoParent}, stays \in BOOLEAN : SetParent(n, p, stays)
       \/ \E n \in Nodes : ReadWorldMatrix(n)

SpecPose == Init /\ [][NextPose]_vars

MaxCamOps == 5         \* calls per run of SpecCam
EyeSet == {V3(0, 0, 5), V3(0, 0, -5)}
TargetSet == {V3(0, 0, 0), V3(0, 0, 5)}
PointSet == {V3(0, 0, 0), V3(0, 0, 6), V3(0, 0, -2000), V3(9, 0, -1),
             Vector3(R0, R0, Frac(-1, 20))}
ScreenSizes == {100}

NextCam ==
    /\ ops < MaxCamOps
    /\ \/ \E eye \in EyeSet, target \in TargetSet : CamSetLookAt(eye, target, VUp)
       \/ CamSetAspect(R1)
       \/ CamSetNear(Frac(1, 10))
       \/ CamSetFar(R(100))
       \/ \E v \in ScaleSet : CamSetScale(v)
       \/ \E v \in PosSet : CamSetPosition(v)
       \/ \E pt \in PointSet, size \in ScreenSizes : WorldToScreen(pt, size, size)

SpecCam == Init /\ [][NextCam]_vars

NextRender ==
    \/ \E e \in PEdges : DrawEdge(e)
    \/ \E pv \in PVertices, color \in ColorSet : DrawPoint(pv, color)
    \/ Clear

SpecRender == Init /\ [][NextRender]_vars


(***************************************************************************)
(* Hierarchy vocabulary used by the properties                             *)
(***************************************************************************)
\* Following _parent from n ends at a root within `fuel` links
RECURSIVE ReachesRoot(_, _)
ReachesRoot(n, fuel) ==
    IF n = NoParent THEN TRUE
    ELSE IF fuel = 0 THEN FALSE
    ELSE ReachesRoot(parent[n], fuel - 1)

\* n sits in a tree: no Transform above it is met twice
InTree(n) == ReachesRoot(n, NumNodes)

\* n and the Transforms above it, for a node that sits in a tree
RECURSIVE Chain(_)
Chain(n) == IF n = NoParent THEN {} ELSE {n} \cup Chain(parent[n])

\* The Transforms below n, found through the child lists ch
RECURSIVE Below(_, _, _)
Below(ch, n, fuel) ==
    IF fuel = 0 THEN {}
    ELSE LET kids == {ch[n][i] : i \in 1..Len(ch[n])}
         IN  UNION {{k} \cup Below(ch, k, fuel - 1) : k \in kids}

DescendantsIn(ch, n) == Below(ch, n, NumNodes)
Descendants(n) == DescendantsIn(children, n)

\* No Transform at or below n is its own descendant
SubtreeIsTreeIn(ch, n) ==
    \A d \in {n} \cup DescendantsIn(ch, n) : d \notin DescendantsIn(ch, d)
SubtreeIsTree(n) == SubtreeIsTreeIn(children, n)

\* The matrices the current poses define, computed without any cache:
\* trs(position, rotation, scale), and the product of those down from the root
ExpectedLocal(n) == trs(position[n], rotation[n], scale[n])

RECURSIVE ExpectedWorld(_)
ExpectedWorld(n) ==
    IF parent[n] = NoParent THEN ExpectedLocal(n)
    ELSE MatMul(ExpectedWorld(parent[n]), ExpectedLocal(n))

PoseOps == {"position", "rotation", "scale", "translate", "rotate", "scale_by",
            "reset", "copy_from", "set_position_and_rotation"}

(***************************************************************************)
(* C1: world_matrix is never stale                                         *)
(***************************************************************************)
\* C1: in every state reached by any sequence of pose mutations, re-parentings
\* and reads, a read of world_matrix on any node of a tree returns normally and
\* returns the matrix the current poses define: the node's local matrix
\* trs(position, rotation, scale) for a root, the parent's world matrix times
\* the local matrix otherwise.  A cached matrix that predates a mutation of the
\* node or of one of its ancestors is never returned.
C1_WorldMatrixNeverStale ==
    \A n \in Nodes :
        InTree(n) =>
            LET h == WorldMatrix(Heap, n)
            IN  /\ Ok(h)
                /\ h.world_matrix[n] = ExpectedWorld(n)

\* C1 witness: an ancestor of n has just been mutated, n still caches a world
\* matrix that the mutation made wrong, and the read returns the right one
C1_Witness ==
    \E n \in Nodes :
        /\ InTree(n)
        /\ parent[n] # NoParent
        /\ lastOp.op \in PoseOps
        /\ lastOp.n \in Chain(parent[n])
        /\ exc = NoExc
        /\ world_matrix[n] # None
        /\ world_matrix[n] # ExpectedWorld(n)
        /\ WorldMatrix(Heap, n).world_matrix[n] = ExpectedWorld(n)


(***************************************************************************)
(* C2: depth-buffer order independence                                     *)
(***************************************************************************)
\* The pixels of draw call i since the last clear that fall on cell (x, y)
PixelsAt(i, x, y) ==
    {draws[i][k] : k \in {j \in 1..Len(draws[i]) : draws[i][j].x = x /\ draws[i][j].y = y}}

\* C2: since the last clear, with depth testing on, whenever one draw call
\* (edge or point) covers a cell with a depth strictly below the depth every
\* other draw call has at that cell, the cell holds that draw's glyph and
\* colour and its depth, whichever of the draws was made first.
C2_DepthOrderIndependent ==
    \A x \in 0..(Width - 1), y \in 0..(Height - 1) :
        \A i \in 1..Len(draws) :
            \A p \in PixelsAt(i, x, y) :
                (\A j \in (1..Len(draws)) \ {i} :
                    \A q \in PixelsAt(j, x, y) : RLt(p.depth, q.depth))
                => /\ char_buffer[y + 1][x + 1] = p.char
                   /\ color_buffer[y + 1][x + 1] = p.color
                   /\ depth_buffer[y + 1][x + 1] = p.depth

\* C2 witness: two draws of different colour cover one cell, the nearer one was
\* drawn first, and the cell still shows it after the farther one was drawn
C2_Witness ==
    /\ Len(draws) = 2
    /\ \E x \in 0..(Width - 1), y \in 0..(Height - 1) :
          \E p \in PixelsAt(1, x, y), q \in PixelsAt(2, x, y) :
              /\ RLt(p.depth, q.depth)
              /\ p.color # q.color
              /\ p.char # q.char
              /\ color_buffer[y + 1][x + 1] = p.color
              /\ char_buffer[y + 1][x + 1] = p.char
              /\ depth_buffer[y + 1][x + 1] = p.depth


(***************************************************************************)
(* C3: world_to_screen rejects exactly the points with view-space z >= 0   *)
(***************************************************************************)
\* The view-space z of a world point under the camera's current pose: the
\* point taken through the inverse of the camera's world matrix (through the
\* identity when that matrix has no inverse, as Camera.view_matrix does)
ViewZ(world_pos) ==
    LET inv == MatInverse(ExpectedWorld(CamNode))
    IN  IF inv # None THEN transform_point(inv, world_pos).z ELSE world_pos.z

\* C3: world_to_screen returns None exactly when the point's view-space z is
\* >= 0; for every point with view-space z < 0 it returns a triple whose third
\* component is -view_z, a strictly positive number, wherever the point falls
\* relative to the screen rectangle and the near and far planes.
C3_RejectsIffViewZNonNegative ==
    lastOp.op = "world_to_screen" =>
        LET z == ViewZ(lastOp.arg[1])
        IN  /\ (lastOp.ret = None) <=> RLe(R0, z)
            /\ lastOp.ret # None =>
                  /\ lastOp.ret[3] = RNeg(z)
                  /\ RLt(R0, lastOp.ret[3])

\* C3 witness: a point in front of a camera that set_look_at has aimed is
\* returned although it lies beyond the far plane or off the screen
C3_Witness ==
    /\ lastOp.op = "world_to_screen"
    /\ cam_aim # None
    /\ lastOp.ret # None
    /\ RLt(ViewZ(lastOp.arg[1]), R0)
    /\ \/ RLt(cam.far, lastOp.ret[3])
       \/ RLt(R(lastOp.arg[2]), lastOp.ret[1])
       \/ RLt(lastOp.ret[1], R0)


(***************************************************************************)
(* C4, C5: Scenarios A and B                                               *)
(***************************************************************************)
\* The camera of Scenarios A and B: unscaled, placed at (0,0,5) and aimed at
\* the origin with up = (0,1,0) by set_look_at, fov 60 degrees, aspect 1,
\* near 0.1, far 100
ScenarioCamera ==
    /\ cam_aim = <<V3(0, 0, 5), V3(0, 0, 0), VUp>>
    /\ scale[CamNode] = VOne
    /\ exc = NoExc
    /\ cam.fov = 60
    /\ cam.aspect = R1
    /\ cam.near = Frac(1, 10)
    /\ cam.far = R(100)
    /\ ~cam.is_orthographic

\* C4: with the scenario camera, world_to_screen of the world point (0,0,0) on
\* a 100x100 screen returns a projection whose screen coordinates are within
\* one pixel of (50, 50).
C4_ScenarioA ==
    (ScenarioCamera /\ lastOp.op = "world_to_screen"
                    /\ lastOp.arg = <<V3(0, 0, 0), 100, 100>>)
    => /\ lastOp.ret # None
       /\ RLe(RAbs(RSub(lastOp.ret[1], R(50))), R1)
       /\ RLe(RAbs(RSub(lastOp.ret[2], R(50))), R1)

\* C5: with the scenario camera, world_to_screen of the world point (0,0,6),
\* which lies behind the camera, returns None.
C5_ScenarioB ==
    (ScenarioCamera /\ lastOp.op = "world_to_screen"
                    /\ lastOp.arg = <<V3(0, 0, 6), 100, 100>>)
    => lastOp.ret = None


(***************************************************************************)
(* C6: pose mutations mark, and only mark                                  *)
(***************************************************************************)
\* C6: every call that mutates position, rotation or scale (the three setters,
\* translate, rotate, scale_by, reset, copy_from, set_position_and_rotation)
\* leaves the node local-dirty and world-dirty and leaves every cached local
\* and world matrix of every node exactly as it was; when the node's subtree
\* is a tree the call returns normally and every descendant is world-dirty.
C6_Step ==
    lastOp'.op \in PoseOps =>
        LET n == lastOp'.n
        IN  /\ local_dirty'[n]
            /\ world_dirty'[n]
            /\ local_matrix' = local_matrix
            /\ world_matrix' = world_matrix
            /\ SubtreeIsTree(n) =>
                  /\ exc' = NoExc
                  /\ \A d \in Descendants(n) : world_dirty'[d]

C7_Step ==
    LET n == lastOp'.n
        ret == lastOp'.ret
    IN  /\ lastOp'.op = "local_matrix" =>
              IF local_dirty[n]
              THEN /\ ret = trs(position[n], rotation[n], scale[n])
                   /\ local_matrix'[n] = ret
                   /\ ~local_dirty'[n]
              ELSE /\ ret = local_matrix[n]
                   /\ UNCHANGED tvars
        /\ lastOp'.op = "world_matrix" =>
              IF world_dirty[n]
              THEN exc' = NoExc =>
                       /\ ret = IF parent[n] = NoParent THEN local_matrix'[n]
                                ELSE MatMul(world_matrix'[parent[n]], local_matrix'[n])
                       /\ world_matrix'[n] = ret
                       /\ ~world_dirty'[n]
              ELSE /\ ret = world_matrix[n]
                   /\ exc' = NoExc
                   /\ UNCHANGED tvars
        /\ (lastOp'.op \in {"local_matrix", "world_matrix"}
              /\ lastOp.op = lastOp'.op /\ lastOp.n = n /\ exc = NoExc) =>
              /\ ret = lastOp.ret
              /\ UNCHANGED tvars

C7_ReadsAreLazy == [][C7_Step]_vars

\* C7 witness: world_matrix was read on a non-root node whose flag was already
\* clear, straight after the read that computed it
C7_Witness ==
    /\ lastOp.op = "world_matrix"
    /\ lastOp.arg = FALSE
    /\ parent[lastOp.n] # NoParent
    /\ lastOp.ret # None
    /\ lastOp.ret # MatIdentity
    /\ lastOp.ret = world_matrix[lastOp.n]
    /\ ~world_dirty[lastOp.n]


(***************************************************************************)
(* C8: the parent setter                                                   *)
(***************************************************************************)
\* C8: assigning a node the parent it already has changes nothing.  Assigning
\* a different parent (a Transform or None) takes the node out of the old
\* parent's child list, appends it at the end of the new parent's list, leaves
\* every other list, every pose and every cached matrix alone, and marks the
\* node world-dirty; when the node's subtree is a tree afterwards the call
\* returns normally and every node of the subtree is world-dirty.
C8_Step ==
    lastOp'.op = "parent" =>
        LET n == lastOp'.n
            p == lastOp'.arg
            old == parent[n]
            Without(list) == SelectSeq(list, LAMBDA x : x # n)
        IN  IF p = old
            THEN /\ UNCHANGED tvars
                 /\ exc' = NoExc
            ELSE /\ parent' = [parent EXCEPT ![n] = p]
                 /\ old # NoParent => children'[old] = Without(children[old])
                 /\ p # NoParent => children'[p] = Append(children[p], n)
                 /\ \A m \in Nodes \ {old, p} : children'[m] = children[m]
                 /\ UNCHANGED <<position, rotation, scale,
                                local_matrix, world_matrix, local_dirty>>
                 /\ world_dirty'[n]
                 /\ SubtreeIsTreeIn(children', n) =>
                       /\ exc' = NoExc
                       /\ \A d \in DescendantsIn(children', n) : world_dirty'[d]

SetParentStaysDone ==
    /\ lastOp.op = "set_parent"
    /\ lastOp.arg[2] = TRUE
    /\ lastOp.ret # None

RECURSIVE SumOfPositions(_)
SumOfPositions(n) ==
    IF parent[n] = NoParent THEN position[n]
    ELSE VAdd(SumOfPositions(parent[n]), position[n])

\* n and every Transform above it have identity rotation and unit scale
Unrotated(n) ==
    \A a \in Chain(n) : rotation[a] = QIdentity /\ scale[a] = VOne

\* C10: for a node of a tree that has, like all of its ancestors, identity
\* rotation and unit scale, world_position reads the component-wise sum of the
\* local positions of the node and its ancestors; a root at (1,0,0) with a
\* child at local (0,1,0) gives the child world_position (1,1,0).
C10_WorldPositionIsSum ==
    \A n \in Nodes :
        (InTree(n) /\ Unrotated(n)) =>
            LET h == WorldMatrix(Heap, n)
            IN  /\ Ok(h)
                /\ get_translation(h.world_matrix[n]) = SumOfPositions(n)

\* C10 witness: Scenario D itself, world_position just read on the child
C10_Witness ==
    /\ lastOp.op = "world_position"
    /\ parent[lastOp.n] # NoParent
    /\ parent[parent[lastOp.n]] = NoParent
    /\ Unrotated(lastOp.n)
    /\ position[parent[lastOp.n]] = V3(1, 0, 0)
    /\ position[lastOp.n] = V3(0, 1, 0)
    /\ lastOp.ret = V3(1, 1, 0)

(***************************************************************************)
(* Camera: projection parameters and the cached projection matrix          *)
(***************************************************************************)
\* clamp(value, 0.01, PI - 0.01) on a field of view given in whole degrees
FovClamp(value) ==
    IF value <= FovMin THEN FovMin ELSE IF value >= FovMax THEN FovMax ELSE value

\* Camera.fov (setter)
FovSet(c, value) == [c EXCEPT !.fov = FovClamp(value), !.projection_dirty = TRUE]

\* Camera.aspect (setter)
AspectSet(c, value) ==
    [c EXCEPT !.aspect = RMax(Frac(1, 100), value), !.projection_dirty = TRUE]

\* Camera.near_clip (setter)
NearClipSet(c, value) ==
    [c EXCEPT !.near = RMax(Frac(1, 1000), value), !.projection_dirty = TRUE]

\* Camera.far_clip (setter)
FarClipSet(c, value) ==
    [c EXCEPT !.far = RMax(RAdd(c.near, Frac(1, 100)), value), !.projection_dirty = TRUE]

\* A faulty orthographic_size setter that leaves the cache marked clean
OrthographicSizeSetClean(c, value) == [c EXCEPT !.ortho_size = RMax(Frac(1, 100), value)]

\* Camera.orthographic_size (setter)
OrthographicSizeSet(c, value) ==
    [c EXCEPT !.ortho_size = RMax(Frac(1, 100), value), !.projection_dirty = TRUE]

\* Camera.is_orthographic (setter)
IsOrthographicSet(c, value) ==
    [c EXCEPT !.is_orthographic = value, !.projection_dirty = TRUE]

\* Both projection builders divide by far - near: with the two planes equal
\* the rebuild raises ZeroDivisionError before anything is assigned
ProjectionRaises(c) ==
    (c.projection_dirty \/ c.projection_matrix = None) /\ c.far = c.near

ProjStep(name, arg, ret, c) == CamStep(name, arg, ret, Heap, c, cam_aim)

ProjSetFov(value) == ProjStep("fov", value, None, FovSet(cam, value))
ProjSetAspect(value) == ProjStep("aspect", value, None, AspectSet(cam, value))
ProjSetNear(value) == ProjStep("near_clip", value, None, NearClipSet(cam, value))
ProjSetFar(value) == ProjStep("far_clip", value, None, FarClipSet(cam, value))
ProjSetOrthoSize(value) ==
    ProjStep("orthographic_size", value, None, OrthographicSizeSet(cam, value))
ProjSetOrthographic(value) ==
    ProjStep("is_orthographic", value, None, IsOrthographicSet(cam, value))

\* m = camera.projection_matrix
ProjectionRead(c) == ProjStep("projection_matrix", None, c.projection_matrix, c)
ReadProjectionMatrix ==
    IF ProjectionRaises(cam)
    THEN CamStep("projection_matrix", None, None, Raise(Heap, "ZeroDivisionError"),
                 cam, cam_aim)
    ELSE ProjectionRead(ProjectionMatrix(cam))

MaxProjOps == 4        \* calls per run of SpecProj
FovSet4 == {-5, 60, 90, 200}
AspectSet3 == {R0, R1, R2}
NearSet == {R0, Frac(1, 10), R(100)}
FarSet == {R0, R(100)}
OrthoSet == {R0, R(5), R(8)}

NextProj ==
    /\ ops < MaxProjOps
    /\ \/ \E v \in FovSet4 : ProjSetFov(v)
       \/ \E v \in AspectSet3 : ProjSetAspect(v)
       \/ \E v \in NearSet : ProjSetNear(v)
       \/ \E v \in FarSet : ProjSetFar(v)
       \/ \E v \in OrthoSet : ProjSetOrthoSize(v)
       \/ \E v \in BOOLEAN : ProjSetOrthographic(v)
       \/ ReadProjectionMatrix

SpecProj == Init /\ [][NextProj]_vars

\* The projection matrix built from the parameters a camera holds now
BuiltProjection(c) == ProjectionFor(c, RMul(c.ortho_size, c.aspect), c.ortho_size)

\* The parameters a camera holds are inside the ranges its setters clamp to
ParametersClamped(c) ==
    /\ FovMin <= c.fov /\ c.fov <= FovMax
    /\ RLe(Frac(1, 100), c.aspect)
    /\ RLe(Frac(1, 1000), c.near)
    /\ RLe(Frac(1, 100), c.ortho_size)

C11_Step ==
    /\ ParametersClamped(cam')
    /\ (lastOp'.op = "far_clip" => RLe(RAdd(cam.near, Frac(1, 100)), cam'.far))
    /\ (lastOp'.op = "projection_matrix" /\ exc' = NoExc) =>
          /\ lastOp'.ret = BuiltProjection(cam)
          /\ cam'.projection_matrix = lastOp'.ret
          /\ ~cam'.projection_dirty
          /\ (~cam.projection_dirty /\ cam.projection_matrix # None) =>
                /\ cam' = cam
                /\ lastOp'.ret = cam.projection_matrix
    /\ (lastOp'.op = "projection_matrix" /\ exc' # NoExc) =>
          /\ cam.far = cam.near
          /\ cam' = cam

\* What holds of the cache: every read of projection_matrix that returns gives
\* the matrix built from the parameters the camera holds at that moment (each
\* inside the range its setter clamps to) in the current projection mode; a
\* read with nothing changed since the last one returns the cached matrix and
\* leaves the camera as it was; a read raises only when far_clip equals
\* near_clip, where building divides by zero.
ProjectionCacheSound == [][C11_Step]_vars

\* C11: after any sequence of changes to the projection parameters, the next
\* read of projection_matrix returns the matrix built from the current
\* (clamped) parameter values in the current projection mode.  The near_clip
\* setter does not keep near below far: with far_clip = near_clip the read
\* raises ZeroDivisionError instead of returning a matrix.
C11_ReadReturnsBuiltMatrix ==
    [][lastOp'.op = "projection_matrix" =>
          /\ exc' = NoExc
          /\ lastOp'.ret = BuiltProjection(cam)]_vars

(***************************************************************************)
(* C14: one glyph per edge                                                 *)
(***************************************************************************)
\* The glyph the slope and direction of an edge from (x0, y0) to (x1, y1)
\* call for: vertical for dx = 0 or |dy/dx| >= 2, horizontal for dy = 0 or
\* |dy/dx| < 0.5, else the diagonal fixed by whether x and y move in opposite
\* directions from start to end
SlopeGlyph(x0, y0, x1, y1) ==
    IF x1 = x0 THEN "vertical"
    ELSE IF y1 = y0 \/ 2 * IAbs(y1 - y0) < IAbs(x1 - x0) THEN "horizontal"
    ELSE IF IAbs(y1 - y0) >= 2 * IAbs(x1 - x0) THEN "vertical"
    ELSE IF (x1 > x0 /\ y1 < y0) \/ (x1 < x0 /\ y1 > y0) THEN "diagonal_up"
    ELSE "diagonal_down"

EdgeGlyph(e) ==
    SlopeGlyph(Trunc(e.v1.screen_x), Trunc(e.v1.screen_y),
               Trunc(e.v2.screen_x), Trunc(e.v2.screen_y))

\* The cell (x, y), 1-based, was written by the step
CellWritten(x, y) ==
    \/ char_buffer'[y][x] # char_buffer[y][x]
    \/ depth_buffer'[y][x] # depth_buffer[y][x]
    \/ color_buffer'[y][x] # color_buffer[y][x]

\* C14: every pixel written by one _draw_edge call receives the same glyph,
\* the one fixed by the edge's slope and its direction from start to end.
\* _get_edge_char is called with the stepped pixel in place of the edge's
\* start, so the last pixel of a diagonal_up edge is drawn as diagonal_down.
C14_OneGlyphPerEdge ==
    [][lastOp'.op = "_draw_edge" =>
          \A y \in 1..Height, x \in 1..Width :
              CellWritten(x, y) => char_buffer'[y][x] = EdgeGlyph(lastOp'.arg)]_vars

(***************************************************************************)
(* WireframeRenderer: resize, set_camera and the direct drawing primitives *)
(***************************************************************************)
\* The three grids with the exception slot of the call working on them
Grids ==
    [char |-> char_buffer, depth |-> depth_buffer, color |-> color_buffer, exc |-> NoExc]

\* Python list indexing: i is a valid index of a list of length len; a
\* negative index counts from the end
PyValid(len, i) == -len <= i /\ i < len
PyIdx(len, i) == IF i >= 0 THEN i + 1 ELSE len + i + 1

\* grid[y][x] can be read or assigned without IndexError
CellValid(grid, x, y) ==
    /\ PyValid(Len(grid), y)
    /\ PyValid(Len(grid[PyIdx(Len(grid), y)]), x)

\* grid[y][x]
CellAt(grid, x, y) == grid[PyIdx(Len(grid), y)][PyIdx(Len(grid[PyIdx(Len(grid), y)]), x)]

\* grid[y][x] = v
CellPut(grid, x, y, v) ==
    [grid EXCEPT ![PyIdx(Len(grid), y)][PyIdx(Len(grid[PyIdx(Len(grid), y)]), x)] = v]

\* self._char_buffer[y][x] = char; self._color_buffer[y][x] = color
PutCharColor(b, x, y, ch, col) ==
    IF ~CellValid(b.char, x, y) \/ ~CellValid(b.color, x, y) THEN Raise(b, "IndexError")
    ELSE [b EXCEPT !.char = CellPut(@, x, y, ch), !.color = CellPut(@, x, y, col)]

\* The body of set_char once its bounds test has passed
SetCharInside(b, x, y, ch, col, depth) ==
    IF ~CellValid(b.depth, x, y) THEN Raise(b, "IndexError")
    ELSE IF ~DepthTesting \/ RLe(depth, CellAt(b.depth, x, y))
    THEN [PutCharColor(b, x, y, ch, col) EXCEPT
              !.depth = IF CellValid(b.char, x, y) /\ CellValid(b.color, x, y)
                        THEN CellPut(@, x, y, depth) ELSE @]
    ELSE b

\* A faulty set_char that tests only the upper bounds
set_char_upper_only(b, x, y, ch, col, depth) ==
    IF ~Ok(b) THEN b
    ELSE IF x < rend.width /\ y < rend.height THEN SetCharInside(b, x, y, ch, col, depth)
    ELSE b

\* WireframeRenderer.set_char(x, y, char, color, depth)
set_char(b, x, y, ch, col, depth) ==
    IF ~Ok(b) THEN b
    ELSE IF InGrid(x, y) THEN SetCharInside(b, x, y, ch, col, depth)
    ELSE b

\* draw_line's char argument when none is given: None, falsy like ''
NoChar == ""

\* One pass of the loop of draw_line at pixel (x0, y0)
LinePixel(b, x0, y0, x1, y1, dx, dy, col, ch) ==
    IF Ok(b) /\ InGrid(x0, y0)
    THEN PutCharColor(b, x0, y0,
                      IF ch # NoChar THEN ch ELSE get_edge_char(x0, y0, x1, y1, dx, dy), col)
    ELSE b

RECURSIVE LineLoop(_, _, _, _, _, _, _, _, _, _, _, _)
LineLoop(b, x0, y0, err, x1, y1, dx, dy, sx, sy, col, ch) ==
    IF ~Ok(b) \/ (x0 = x1 /\ y0 = y1) THEN b
    ELSE LineLoop(LinePixel(b,
                            IF 2 * err > -dy THEN x0 + sx ELSE x0,
                            IF 2 * err < dx THEN y0 + sy ELSE y0,
                            x1, y1, dx, dy, col, ch),
                  IF 2 * err > -dy THEN x0 + sx ELSE x0,
                  IF 2 * err < dx THEN y0 + sy ELSE y0,
                  err - (IF 2 * err > -dy THEN dy ELSE 0) + (IF 2 * err < dx THEN dx ELSE 0),
                  x1, y1, dx, dy, sx, sy, col, ch)

\* WireframeRenderer.draw_line(x0, y0, x1, y1, color, char)
draw_line(b, x0, y0, x1, y1, col, ch) ==
    LineLoop(LinePixel(b, x0, y0, x1, y1, IAbs(x1 - x0), IAbs(y1 - y0), col, ch),
             x0, y0, IAbs(x1 - x0) - IAbs(y1 - y0), x1, y1,
             IAbs(x1 - x0), IAbs(y1 - y0),
             IF x0 < x1 THEN 1 ELSE -1, IF y0 < y1 THEN 1 ELSE -1, col, ch)

\* A faulty draw_text that writes through set_char, depth test and depth
\* write included
RECURSIVE TextLoopDepthTested(_, _, _, _, _, _)
TextLoopDepthTested(b, x, y, text, col, i) ==
    IF ~Ok(b) \/ i > Len(text) THEN b
    ELSE TextLoopDepthTested(set_char(b, x + i - 1, y, text[i], col, R0),
                             x, y, text, col, i + 1)
draw_text_depth_tested(b, x, y, text, col) == TextLoopDepthTested(b, x, y, text, col, 1)

\* WireframeRenderer.draw_text(x, y, text, color), from character i on
RECURSIVE TextLoop(_, _, _, _, _, _)
TextLoop(b, x, y, text, col, i) ==
    IF ~Ok(b) \/ i > Len(text) THEN b
    ELSE TextLoop(IF InGrid(x + i - 1, y)
                  THEN PutCharColor(b, x + i - 1, y, text[i], col) ELSE b,
                  x, y, text, col, i + 1)

draw_text(b, x, y, text, col) == TextLoop(b, x, y, text, col, 1)

\* The corner writes of one row of draw_box: if x >= 0: set_char(x, yy, left);
\* if x + width - 1 < self.width: set_char(x + width - 1, yy, right)
BoxRight(b, x, yy, w, col, rch) ==
    IF x + w - 1 < rend.width THEN set_char(b, x + w - 1, yy, rch, col, R0) ELSE b
BoxEnds(b, x, yy, w, col, lch, rch) ==
    BoxRight(IF x >= 0 THEN set_char(b, x, yy, lch, col, R0) ELSE b, x, yy, w, col, rch)

\* for i in range(1, width - 1): if 0 <= x + i < self.width: set_char(x + i, yy, mid)
RECURSIVE BoxSpan(_, _, _, _, _, _, _)
BoxSpan(b, x, yy, w, col, mid, i) ==
    IF i >= w - 1 THEN b
    ELSE BoxSpan(IF 0 <= x + i /\ x + i < rend.width
                 THEN set_char(b, x + i, yy, mid, col, R0) ELSE b,
                 x, yy, w, col, mid, i + 1)

\* One row of draw_box, skipped whole when yy is outside the grid
BoxRow(b, x, yy, w, col, lch, rch, mid, span) ==
    IF 0 <= yy /\ yy < rend.height
    THEN IF span THEN BoxSpan(BoxEnds(b, x, yy, w, col, lch, rch), x, yy, w, col, mid, 1)
         ELSE BoxEnds(b, x, yy, w, col, lch, rch)
    ELSE b

\* for j in range(1, height - 1): the sides and, with fill, the interior
RECURSIVE BoxRows(_, _, _, _, _, _, _, _)
BoxRows(b, x, y, w, h, col, fill, j) ==
    IF j >= h - 1 THEN b
    ELSE BoxRows(BoxRow(b, x, y + j, w, col, "v", "v", " ", fill),
                 x, y, w, h, col, fill, j + 1)

\* WireframeRenderer.draw_box(x, y, width, height, color, fill)
draw_box(b, x, y, w, h, col, fill) ==
    BoxRows(BoxRow(BoxRow(b, x, y, w, col, "tl", "tr", "h", TRUE),
                   x, y + h - 1, w, col, "bl", "br", "h", TRUE),
            x, y, w, h, col, fill, 1)

\* Grids returned by an operation that cannot raise
Returned(b) == [char |-> b.char, depth |-> b.depth, color |-> b.color, exc |-> NoExc]

\* One call on the renderer: the grids g, renderer fields r and camera c it
\* leaves behind
GStep(name, arg, ret, g, r, c) ==
    /\ ops' = ops + 1
    /\ lastOp' = Op(name, 0, arg, ret)
    /\ char_buffer' = g.char
    /\ depth_buffer' = g.depth
    /\ color_buffer' = g.color
    /\ exc' = g.exc
    /\ rend' = r
    /\ cam' = c
    /\ UNCHANGED <<tvars, cam_aim, draws, bounds_mesh>>

\* renderer.resize(width, height)
Resize(w, h) ==
    GStep("resize", <<w, h>>, None,
          Returned(ClearedGrid(w, h, " ", "none")),
          [rend EXCEPT !.width = w, !.height = h], cam)

\* renderer.set_camera(camera): the camera is stored, then its aspect set to
\* self.width / (self.height * 2.0), which divides by zero for height 0
SetCamera ==
    IF rend.height = 0
    THEN GStep("set_camera", None, None, Raise(Grids, "ZeroDivisionError"),
               [rend EXCEPT !.camera = TRUE], cam)
    ELSE GStep("set_camera", None, None, Grids, [rend EXCEPT !.camera = TRUE],
               AspectSet(cam, Frac(rend.width, rend.height * 2)))

\* renderer.clear(char, color)
ClearWith(ch, col) ==
    GStep("clear", <<ch, col>>, None, Returned(ClearedBuffers(ch, col)),
          rend, cam)

\* renderer.set_char(x, y, char, color, depth)
SetChar(x, y, ch, col, depth) ==
    GStep("set_char", <<x, y, ch, col, depth>>, None,
          set_char(Grids, x, y, ch, col, depth), rend, cam)

\* renderer.draw_line(x0, y0, x1, y1, color, char)
DrawLine(p0, p1, col, ch) ==
    GStep("draw_line", <<p0, p1, col, ch>>, None,
          draw_line(Grids, p0[1], p0[2], p1[1], p1[2], col, ch), rend, cam)

\* renderer.draw_text(x, y, text, color)
DrawText(x, y, text, col) ==
    GStep("draw_text", <<x, y, text, col>>, None, draw_text(Grids, x, y, text, col),
          rend, cam)

\* renderer.draw_box(x, y, width, height, color, fill)
DrawBox(x, y, w, h, col, fill) ==
    GStep("draw_box", <<x, y, w, h, col, fill>>, None,
          draw_box(Grids, x, y, w, h, col, fill), rend, cam)

\* renderer._draw_edge(edge), counted as a call
GridDrawEdge(e) ==
    GStep("_draw_edge", e, None, Returned(draw_edge(Buffers, e)), rend, cam)

\* rows = renderer.get_buffer(): one string per row of the character grid,
\* each the row's cells joined (a cell holds one character)
GetBuffer == GStep("get_buffer", None, char_buffer, Grids, rend, cam)

MaxGridOps == 3        \* calls per run of SpecGrid
SizeSet == {<<3, 2>>, <<2, 3>>, <<0, 1>>, <<1, 0>>}
CellXs == {-1, 0, 3}
CellYs == {-1, 1}
LinePoints == {<<-1, -1>>, <<0, 1>>, <<3, 0>>}
TextXs == {-1, 0, 2}
TextYs == {-1, 0, 2}
BoxXs == {-1, 0, 1}
BoxYs == {-1, 0}
BoxWidths == {0, 3}
BoxHeights == {1, 3}
GridEdges ==
    {e \in PEdges : e.color = "red" /\ e.v1.depth = R(3) /\ e.v2.depth = R(7)
                    /\ e.v1.screen_x = R(-1) /\ e.v2.screen_y = R0}

NextGrid ==
    /\ ops < MaxGridOps
    /\ \/ \E s \in SizeSet : Resize(s[1], s[2])
       \/ SetCamera
       \/ ClearWith("#", "red")
       \/ \E x \in CellXs, y \in CellYs, d \in {R0, R(5)} : SetChar(x, y, "a", "red", d)
       \/ \E p0 \in LinePoints, p1 \in LinePoints, ch \in {NoChar, "*"} :
              DrawLine(p0, p1, "blue", ch)
       \/ \E x \in TextXs, y \in TextYs : DrawText(x, y, <<"h", "i">>, "red")
       \/ \E x \in BoxXs, y \in BoxYs, w \in BoxWidths, h \in BoxHeights, fill \in BOOLEAN :
              DrawBox(x, y, w, h, "blue", fill)
       \/ \E e \in GridEdges : GridDrawEdge(e)
       \/ GetBuffer

SpecGrid == Init /\ [][NextGrid]_vars

(***************************************************************************)
(* C12, C15, C16: the renderer's grids and the camera's aspect             *)
(***************************************************************************)
\* C12: after resize(width, height) on a renderer that has a camera set, the
\* camera's aspect equals width / (height * 2).  resize only stores the size
\* and clears; the aspect is written by set_camera alone and keeps the value
\* of the size the renderer had then.
C12_AspectFollowsResize ==
    [][(lastOp'.op = "resize" /\ rend'.camera /\ rend'.width > 0 /\ rend'.height > 0) =>
          cam'.aspect = Frac(rend'.width, rend'.height * 2)]_vars

\* Rows and columns of a grid
ShapeOf(grid) == [y \in 1..Len(grid) |-> Len(grid[y])]

\* The cell (x, y), 0-based, lies between the two corners, in either order
Between(a, b, v) == (a <= v /\ v <= b) \/ (b <= v /\ v <= a)

\* The coordinates a direct drawing call addresses: the cell of set_char, the
\* rectangle spanned by the end points of draw_line, the run of cells of
\* draw_text, the rectangle of draw_box
Addressed(op, x, y) ==
    IF op.op = "set_char" THEN x = op.arg[1] /\ y = op.arg[2]
    ELSE IF op.op = "draw_line"
         THEN Between(op.arg[1][1], op.arg[2][1], x) /\ Between(op.arg[1][2], op.arg[2][2], y)
    ELSE IF op.op = "draw_text"
         THEN y = op.arg[2] /\ op.arg[1] <= x /\ x < op.arg[1] + Len(op.arg[3])
    ELSE Between(op.arg[1], op.arg[1] + op.arg[3] - 1, x)
         /\ Between(op.arg[2], op.arg[2] + op.arg[4] - 1, y)

DirectOps == {"set_char", "draw_line", "draw_text", "draw_box"}

C15_Step ==
    lastOp'.op \in DirectOps =>
        /\ exc' = NoExc
        /\ ShapeOf(char_buffer') = ShapeOf(char_buffer)
        /\ ShapeOf(depth_buffer') = ShapeOf(depth_buffer)
        /\ ShapeOf(color_buffer') = ShapeOf(color_buffer)
        /\ \A y \in 1..Len(char_buffer) : \A x \in 1..Len(char_buffer[y]) :
               CellWritten(x, y) =>
                   /\ Addressed(lastOp', x - 1, y - 1)
                   /\ InGrid(x - 1, y - 1)
        /\ (\A y \in 0..(rend.height - 1), x \in 0..(rend.width - 1) : ~Addressed(lastOp', x, y))
               => UNCHANGED <<char_buffer, depth_buffer, color_buffer>>

\* C15: set_char, draw_line, draw_text and draw_box never raise, change no
\* cell other than an in-grid cell at a coordinate they address (a negative
\* coordinate does not wrap to the opposite edge), and leave the three grids
\* unchanged when every coordinate they address is outside the grid.
C15_DirectDrawingIsBoundsChecked == [][C15_Step]_vars

\* C15 witness: a box whose left edge is at x = -1 has been drawn on the 3x2
\* grid: its in-grid part is there and the opposite edge of the grid is intact
C15_Witness ==
    /\ lastOp.op = "draw_box"
    /\ lastOp.arg[1] = -1 /\ lastOp.arg[2] = 0 /\ lastOp.arg[3] = 3
    /\ exc = NoExc
    /\ rend.width = 3 /\ rend.height = 2
    /\ char_buffer[1][1] = "h"
    /\ char_buffer[1][2] = "tr"
    /\ char_buffer[1][3] = " "

\* The three grids have height rows of width cells
GridShapes ==
    /\ Len(char_buffer) = rend.height
    /\ Len(depth_buffer) = rend.height
    /\ Len(color_buffer) = rend.height
    /\ \A y \in 1..rend.height :
           /\ Len(char_buffer[y]) = rend.width
           /\ Len(depth_buffer[y]) = rend.width
           /\ Len(color_buffer[y]) = rend.width

\* Every cell holds ch, +infinity and col
AllCells(ch, col) ==
    \A y \in 1..rend'.height, x \in 1..rend'.width :
        /\ char_buffer'[y][x] = ch
        /\ depth_buffer'[y][x] = Inf
        /\ color_buffer'[y][x] = col

C16_Step ==
    /\ (lastOp'.op = "clear" => AllCells(lastOp'.arg[1], lastOp'.arg[2]) /\ rend' = rend)
    /\ (lastOp'.op = "resize" =>
           /\ rend'.width = lastOp'.arg[1]
           /\ rend'.height = lastOp'.arg[2]
           /\ AllCells(" ", "none"))
    /\ (lastOp'.op = "get_buffer" =>
           /\ Len(lastOp'.ret) = rend.height
           /\ \A y \in 1..Len(lastOp'.ret) : Len(lastOp'.ret[y]) = rend.width)

\* C16: for sizes of zero or more, the three grids always have height rows of
\* width cells, after construction and after every resize, clear and draw
\* call; clear(char, color) leaves every cell at char, +infinity and color;
\* resize(w, h) leaves the grids at the new shape in the cleared state; and
\* get_buffer returns height rows of width characters.
C16_GridsKeepShape == []GridShapes /\ [][C16_Step]_vars

\* C16 witness: get_buffer read after a resize to 2 columns by 3 rows and a
\* draw call on the resized grid
C16_Witness ==
    /\ lastOp.op = "get_buffer"
    /\ rend.width = 2 /\ rend.height = 3
    /\ Len(lastOp.ret) = 3
    /\ \E y \in 1..3, x \in 1..2 : lastOp.ret[y][x] # " "

(***************************************************************************)
(* WireframeRenderer.render_mesh                                           *)
(***************************************************************************)
MeshNode == 2          \* the Transform handed to render_mesh
NoColor == "unset"     \* color_override=None, Edge.color=None
White == "white"       \* (255, 255, 255)

\* project_vertex after world_to_screen returned: screen_y = screen_y / 2.0
ProjectedFrom(result) ==
    IF result = None THEN None
    ELSE [screen_x |-> result[1], screen_y |-> RDiv(result[2], R2), depth |-> result[3]]

\* A faulty project_vertex that keeps a vertex in the camera's own plane
project_vertex_strict(r, h, c, vertex, transform) ==
    IF ~r.camera THEN None
    ELSE ProjectedFrom(WorldToScreenValStrict(h, c, transform_point(transform, vertex),
                                              r.width, r.height * 2))

\* WireframeRenderer.project_vertex(vertex, transform)
project_vertex(r, h, c, vertex, transform) ==
    IF ~r.camera THEN None
    ELSE ProjectedFrom(WorldToScreenVal(h, c, transform_point(transform, vertex),
                                        r.width, r.height * 2))

\* projected_vertices of render_mesh
ProjectedVertices(r, h, c, vertices, transform) ==
    [i \in 1..Len(vertices) |-> project_vertex(r, h, c, vertices[i], transform)]

\* color_override or edge.color or (255, 255, 255)
EdgeColor(color_override, color) ==
    IF color_override # NoColor THEN color_override
    ELSE IF color # NoColor THEN color ELSE White

\* The ProjectedEdge of mesh edge i (its position in mesh.edges is kept to
\* tell the edges apart in the record of draw calls)
ProjectedEdge(pv1, pv2, color, i) ==
    [v1 |-> pv1, v2 |-> pv2, color |-> color,
     depth |-> RDiv(RAdd(pv1.depth, pv2.depth), R2), item |-> i]

\* The loop over mesh.edges: edges with an absent end point are skipped
RECURSIVE CollectEdges(_, _, _, _)
CollectEdges(edges, pvs, color_override, i) ==
    IF i > Len(edges) THEN <<>>
    ELSE IF pvs[edges[i].v1_idx + 1] = None \/ pvs[edges[i].v2_idx + 1] = None
         THEN CollectEdges(edges, pvs, color_override, i + 1)
    ELSE <<ProjectedEdge(pvs[edges[i].v1_idx + 1], pvs[edges[i].v2_idx + 1],
                         EdgeColor(color_override, edges[i].color), i)>>
         \o CollectEdges(edges, pvs, color_override, i + 1)

\* A faulty sort that leaves the edges in mesh order
InsertAtEnd(sorted, e) == Append(sorted, e)

\* list.sort(key=depth, reverse=True) is stable: an edge goes in front of the
\* first edge that is strictly nearer
RECURSIVE InsertByDepth(_, _)
InsertByDepth(sorted, e) ==
    IF sorted = <<>> THEN <<e>>
    ELSE IF RLt(Head(sorted).depth, e.depth) THEN <<e>> \o sorted
    ELSE <<Head(sorted)>> \o InsertByDepth(Tail(sorted), e)

RECURSIVE SortByDepth(_, _)
SortByDepth(sorted, rest) ==
    IF rest = <<>> THEN sorted
    ELSE SortByDepth(InsertByDepth(sorted, Head(rest)), Tail(rest))

\* The edges render_mesh draws, in drawing order
EdgesToDraw(mesh, pvs, color_override) ==
    SortByDepth(<<>>, CollectEdges(mesh.edges, pvs, color_override, 1))

\* The vertices render_mesh draws in point mode, in drawing order
RECURSIVE PointsToDraw(_, _)
PointsToDraw(pvs, i) ==
    IF i > Len(pvs) THEN <<>>
    ELSE IF pvs[i] = None THEN PointsToDraw(pvs, i + 1)
    ELSE <<[pv |-> pvs[i], item |-> i]>> \o PointsToDraw(pvs, i + 1)

RECURSIVE DrawEdges(_, _)
DrawEdges(b, es) ==
    IF es = <<>> THEN b ELSE DrawEdges(draw_edge(b, Head(es)), Tail(es))

RECURSIVE DrawPoints(_, _, _)
DrawPoints(b, ps, color) ==
    IF ps = <<>> THEN b ELSE DrawPoints(draw_point(b, Head(ps).pv, color), Tail(ps), color)

WireframeModes == {"WIREFRAME", "WIREFRAME_SOLID"}
RenderModes == {"WIREFRAME", "POINTS", "SOLID", "WIREFRAME_SOLID"}

\* A faulty render_mesh that consults the flag: with backface culling on, an
\* edge running from right to left on the screen is taken for a back face
FrontFacing(es) == SelectSeq(es, LAMBDA e : RLe(e.v1.screen_x, e.v2.screen_x))
render_mesh_culling(b, r, mesh, pvs, color_override) ==
    IF r.render_mode \in WireframeModes
    THEN DrawEdges(b, IF r.backface_culling
                      THEN FrontFacing(EdgesToDraw(mesh, pvs, color_override))
                      ELSE EdgesToDraw(mesh, pvs, color_override))
    ELSE IF r.render_mode = "POINTS"
    THEN DrawPoints(b, PointsToDraw(pvs, 1), EdgeColor(color_override, NoColor))
    ELSE b

\* render_mesh after the vertices were projected: the grids it leaves
render_mesh(b, r, mesh, pvs, color_override) ==
    IF r.render_mode \in WireframeModes
    THEN DrawEdges(b, EdgesToDraw(mesh, pvs, color_override))
    ELSE IF r.render_mode = "POINTS"
    THEN DrawPoints(b, PointsToDraw(pvs, 1), EdgeColor(color_override, NoColor))
    ELSE b

\* The _draw_edge and _draw_point calls of one render_mesh, in order, each by
\* the position of its edge or vertex in the mesh
ItemsOf(s) == [i \in 1..Len(s) |-> s[i].item]
DrawCalls(r, mesh, pvs, color_override) ==
    IF r.render_mode \in WireframeModes THEN ItemsOf(EdgesToDraw(mesh, pvs, color_override))
    ELSE IF r.render_mode = "POINTS" THEN ItemsOf(PointsToDraw(pvs, 1))
    ELSE <<>>

\* The grids render_mesh(mesh, transform, color_override) leaves on renderer r,
\* given the heap and the camera after their lazy reads
MeshGrids(b, r, h, c, mesh, color_override) ==
    IF ~r.camera THEN b
    ELSE render_mesh(b, r, mesh,
                     ProjectedVertices(r, h, c, mesh.vertices, h.world_matrix[MeshNode]),
                     color_override)

\* The heap after render_mesh read transform.world_matrix and, for each
\* vertex, world_to_screen read the camera's view matrix
MeshReads(h, mesh) ==
    IF ~rend.camera THEN h
    ELSE IF mesh.vertices = <<>> THEN WorldMatrix(h, MeshNode)
    ELSE WorldMatrix(WorldMatrix(h, MeshNode), CamNode)

\* One call of render_mesh: the projection matrix is read only when a vertex
\* is not rejected
MStep(name, arg, ret, b, h, c) ==
    /\ ops' = ops + 1
    /\ lastOp' = Op(name, MeshNode, arg, ret)
    /\ Store(h)
    /\ char_buffer' = b.char
    /\ depth_buffer' = b.depth
    /\ color_buffer' = b.color
    /\ cam' = c
    /\ UNCHANGED <<cam_aim, draws, rend, bounds_mesh>>
RenderMeshDone(mesh, color_override, h, c, pvs) ==
    MStep("render_mesh", <<mesh, color_override>>,
          IF rend.camera THEN DrawCalls(rend, mesh, pvs, color_override) ELSE <<>>,
          MeshGrids(Buffers, rend, h, c, mesh, color_override), h,
          IF rend.camera /\ \E i \in 1..Len(pvs) : pvs[i] # None THEN c ELSE cam)
RenderMeshWith(mesh, color_override, h, c) ==
    RenderMeshDone(mesh, color_override, h, c,
                   ProjectedVertices(rend, h, c, mesh.vertices, h.world_matrix[MeshNode]))
RenderMesh(mesh, color_override) ==
    RenderMeshWith(mesh, color_override, MeshReads(Heap, mesh), ProjectionMatrix(cam))

\* renderer.render_mode = mode
SetRenderMode(mode) ==
    GStep("render_mode", mode, None, Grids, [rend EXCEPT !.render_mode = mode], cam)

\* renderer.backface_culling = value
SetBackfaceCulling(value) ==
    GStep("backface_culling", value, None, Grids,
          [rend EXCEPT !.backface_culling = value], cam)

MaxMeshOps == 5        \* calls per run of SpecMesh

\* Edge(v1_idx, v2_idx, color)
Edge(v1_idx, v2_idx, color) == [v1_idx |-> v1_idx, v2_idx |-> v2_idx, color |-> color]

\* A triangle in the plane z = -3 with a fourth vertex at z = 2 behind the
\* default camera, and a mesh that holds the same edge twice, followed by an
\* edge that lies farther away
Tetra ==
    [vertices |-> <<V3(-1, 0, -3), V3(1, 0, -3), V3(0, 1, -3), V3(0, 0, 2)>>,
     edges |-> <<Edge(0, 1, "blue"), Edge(1, 2, NoColor), Edge(2, 0, "red"),
                 Edge(0, 3, "blue"), Edge(3, 1, NoColor)>>]
Doubled ==
    [vertices |-> <<V3(1, 0, -3), V3(-1, 1, -6), V3(0, -1, -9)>>,
     edges |-> <<Edge(0, 1, "red"), Edge(1, 0, "blue"), Edge(1, 2, NoColor)>>]
Meshes == {Tetra, Doubled}
MeshPositions == {V3(0, 0, 3), V3(0, 0, -4)}
CamPositions == {V3(0, 0, -10)}

NextMesh ==
    /\ ops < MaxMeshOps
    /\ \/ SetCamera
       \/ \E mode \in RenderModes : SetRenderMode(mode)
       \/ \E value \in BOOLEAN : SetBackfaceCulling(value)
       \/ \E v \in MeshPositions : SetPosition(MeshNode, v)
       \/ \E v \in CamPositions : CamSetPosition(v)
       \/ ClearWith(" ", "none")
       \/ \E mesh \in Meshes, color_override \in {NoColor, "green"} :
              RenderMesh(mesh, color_override)

SpecMesh == Init /\ [][NextMesh]_vars

(***************************************************************************)
(* C13, C17: what render_mesh draws                                        *)
(***************************************************************************)
\* The vertex, placed by the mesh's transform, is in front of the camera:
\* its view-space z under the poses as they are is below 0
InFront(vertex) == RLt(ViewZ(transform_point(ExpectedWorld(MeshNode), vertex)), R0)

\* The positions in mesh.edges of the edges whose two end points are in front
BothInFront(mesh) ==
    {i \in 1..Len(mesh.edges) :
        /\ InFront(mesh.vertices[mesh.edges[i].v1_idx + 1])
        /\ InFront(mesh.vertices[mesh.edges[i].v2_idx + 1])}

\* The mesh without the edges that have a rejected end point
WithoutRejectedEdges(mesh) ==
    [mesh EXCEPT !.edges =
        SelectSeq(mesh.edges, LAMBDA e : /\ InFront(mesh.vertices[e.v1_idx + 1])
                                         /\ InFront(mesh.vertices[e.v2_idx + 1]))]

\* How many of the calls were for item i
TimesDrawn(calls, i) == Cardinality({k \in 1..Len(calls) : calls[k] = i})

\* The grids after the step are the grids b
GridsBecome(b) ==
    /\ char_buffer' = b.char
    /\ depth_buffer' = b.depth
    /\ color_buffer' = b.color

C13_Wireframe(mesh, color_override, calls) ==
    /\ \A i \in 1..Len(mesh.edges) :
           TimesDrawn(calls, i) = IF i \in BothInFront(mesh) THEN 1 ELSE 0
    /\ GridsBecome(MeshGrids(Buffers, rend, MeshReads(Heap, mesh), ProjectionMatrix(cam),
                             WithoutRejectedEdges(mesh), color_override))
    /\ BothInFront(mesh) = {} => UNCHANGED <<char_buffer, depth_buffer, color_buffer>>

C13_Points(mesh, calls) ==
    /\ \A i \in 1..Len(mesh.vertices) :
           TimesDrawn(calls, i) = IF InFront(mesh.vertices[i]) THEN 1 ELSE 0
    /\ \A y \in 1..Height, x \in 1..Width :
           CellWritten(x, y) =>
               \E i \in 1..Len(mesh.vertices) :
                   /\ InFront(mesh.vertices[i])
                   /\ depth_buffer'[y][x] =
                          RNeg(ViewZ(transform_point(ExpectedWorld(MeshNode), mesh.vertices[i])))

C13_Step ==
    (lastOp'.op = "render_mesh" /\ rend.camera) =>
        /\ exc' = NoExc
        /\ rend.render_mode \in WireframeModes =>
               C13_Wireframe(lastOp'.arg[1], lastOp'.arg[2], lastOp'.ret)
        /\ rend.render_mode = "POINTS" => C13_Points(lastOp'.arg[1], lastOp'.ret)

\* C13: in the wireframe modes render_mesh draws each mesh edge whose two end
\* points are in front of the camera exactly once and no other edge, and the
\* grids it leaves are those of the mesh without the edges that have a
\* rejected end point (none of the three grids changes when every edge has
\* one); in point mode it draws each vertex in front of the camera once, and
\* every cell it changes is the cell of such a vertex.
C13_RejectedVerticesAreAbsent == [][C13_Step]_vars

\* C13 witness: the four-vertex mesh was rendered in a wireframe mode with one
\* vertex behind the camera: three of its five edges were drawn, and left marks
C13_Witness ==
    /\ lastOp.op = "render_mesh"
    /\ lastOp.arg[1] = Tetra
    /\ rend.camera
    /\ rend.render_mode \in WireframeModes
    /\ Len(lastOp.ret) = 3
    /\ BothInFront(Tetra) = {1, 2, 3}
    /\ \E y \in 1..Height, x \in 1..Width : char_buffer[y][x] # " "

\* The renderer with the flag the other way
OtherCulling(r) == [r EXCEPT !.backface_culling = ~r.backface_culling]

C17_Step ==
    /\ lastOp'.op = "render_mesh" =>
           GridsBecome(MeshGrids(Buffers, OtherCulling(rend), MeshReads(Heap, lastOp'.arg[1]),
                                 ProjectionMatrix(cam), lastOp'.arg[1], lastOp'.arg[2]))
    /\ lastOp'.op = "backface_culling" =>
           /\ UNCHANGED <<char_buffer, depth_buffer, color_buffer, draws, tvars, cvars>>
           /\ OtherCulling(rend') \in {rend, OtherCulling(rend)}
    /\ lastOp'.op # "backface_culling" => rend'.backface_culling = rend.backface_culling

Determinant(m) ==
    DetOf(Sub2(m, 0, 1, 0, 1), Sub2(m, 0, 1, 0, 2), Sub2(m, 0, 1, 0, 3),
          Sub2(m, 0, 1, 1, 2), Sub2(m, 0, 1, 1, 3), Sub2(m, 0, 1, 2, 3),
          Sub2(m, 2, 3, 0, 1), Sub2(m, 2, 3, 0, 2), Sub2(m, 2, 3, 0, 3),
          Sub2(m, 2, 3, 1, 2), Sub2(m, 2, 3, 1, 3), Sub2(m, 2, 3, 2, 3))

\* Vector3(m[0][j], m[1][j], m[2][j]).magnitude: the length of column j
ColumnMagnitude(m, j) == VMagnitude(Vector3(M(m, 0, j), M(m, 1, j), M(m, 2, j)))

\* rot_matrix of decompose: column j divided by the j-th scale
RotMatrix(m, sx, sy, sz) ==
    << <<RDiv(M(m, 0, 0), sx), RDiv(M(m, 0, 1), sy), RDiv(M(m, 0, 2), sz), R0>>,
       <<RDiv(M(m, 1, 0), sx), RDiv(M(m, 1, 1), sy), RDiv(M(m, 1, 2), sz), R0>>,
       <<RDiv(M(m, 2, 0), sx), RDiv(M(m, 2, 1), sy), RDiv(M(m, 2, 2), sz), R0>>,
       <<R0, R0, R0, R1>> >>

\* decompose after the three scales were measured
DecomposeOver(m, sx, sy, sz) ==
    <<get_translation(m), from_matrix(RotMatrix(m, sx, sy, sz)), Vector3(sx, sy, sz)>>

\* if self.determinant < 0: sx = -sx
SignedBy(det, sx) == IF RLt(det, R0) THEN RNeg(sx) ELSE sx

\* Matrix4.decompose(): (translation, rotation, scale)
decompose(m) ==
    DecomposeOver(m, SignedBy(Determinant(m), ColumnMagnitude(m, 0)),
                  ColumnMagnitude(m, 1), ColumnMagnitude(m, 2))

\* One call of a function that touches no object
MathStep(name, arg, ret) ==
    /\ ops' = ops + 1
    /\ lastOp' = Op(name, 0, arg, ret)
    /\ UNCHANGED <<tvars, exc, cvars, rvars>>

\* Matrix4.trs(t, r, s).decompose()
TrsDecompose(t, r, s) == MathStep("decompose", <<t, r, s>>, decompose(trs(t, r, s)))

\* m.inverse
Inverse(m) == MathStep("inverse", m, MatInverse(m))

\* a * b
Multiply(a, b) == MathStep("__mul__", <<a, b>>, MatMul(a, b))

MaxMathOps == 2        \* calls per run of SpecMath

UnitQuaternions ==
    {QIdentity, Q4(0, 1, 0, 0),
     Quaternion(RHalf, RHalf, RHalf, RHalf),
     Quaternion(RHalf, RNeg(RHalf), RHalf, RHalf)}
PositiveScales == {V3(1, 1, 1), V3(2, 2, 2), V3(2, 3, 4)}
Translations == {V3(0, 0, 0), V3(1, 2, 3)}

\* A matrix of whole numbers from its rows
RowOf(r) == <<R(r[1]), R(r[2]), R(r[3]), R(r[4])>>
IntMatrix(r1, r2, r3, r4) == <<RowOf(r1), RowOf(r2), RowOf(r3), RowOf(r4)>>

\* Affine and projective matrices with an inverse, and singular ones: a zero
\* scale, the zero matrix, proportional rows
Matrices ==
    {MatIdentity,
     trs(V3(1, 2, 3), Quaternion(RHalf, RHalf, RHalf, RHalf), V3(2, 3, 4)),
     trs(V3(1, 0, 0), QIdentity, V3(0, 1, 1)),
     MatZero,
     IntMatrix(<<1, 2, 0, 1>>, <<0, 1, 3, 0>>, <<2, 0, 1, 1>>, <<1, 0, 0, 2>>),
     IntMatrix(<<1, 2, 3, 4>>, <<2, 4, 6, 8>>, <<0, 1, 0, 1>>, <<1, 0, 0, 1>>),
     perspective(90, R1, RHalf, R(3))}

NextMath ==
    /\ ops < MaxMathOps
    /\ \/ \E t \in Translations, r \in UnitQuaternions, s \in PositiveScales :
              TrsDecompose(t, r, s)
       \/ \E m \in Matrices : Inverse(m)
       \/ \E a \in Matrices, b \in Matrices : Multiply(a, b)

SpecMath == Init /\ [][NextMath]_vars

(***************************************************************************)
(* C18: the TRS round trip                                                 *)
(***************************************************************************)
\* Within 1/100 of each other (the spec's tolerance is 1e-4; the wider one
\* leaves room for the rounding of Sqrt)
Near(a, b) == RLe(RAbs(RSub(a, b)), Frac(1, 100))
NearV(a, b) == Near(a.x, b.x) /\ Near(a.y, b.y) /\ Near(a.z, b.z)
NearQ(a, b) == Near(a.x, b.x) /\ Near(a.y, b.y) /\ Near(a.z, b.z) /\ Near(a.w, b.w)
QNeg(q) == Quaternion(RNeg(q.x), RNeg(q.y), RNeg(q.z), RNeg(q.w))

\* C18: Matrix4.trs(t, r, s).decompose() returns translation t, rotation r up
\* to sign and scale s, for every t, unit quaternion r and s with all
\* components positive.  trs scales the rows of the rotation matrix and
\* decompose measures its columns, so a scale that is not uniform comes back
\* permuted or mixed under a rotation that is not the identity.
C18_TrsRoundTrip ==
    [][lastOp'.op = "decompose" =>
          /\ NearV(lastOp'.ret[1], lastOp'.arg[1])
          /\ NearQ(lastOp'.ret[2], lastOp'.arg[2]) \/ NearQ(lastOp'.ret[2], QNeg(lastOp'.arg[2]))
          /\ NearV(lastOp'.ret[3], lastOp'.arg[3])]_vars

(***************************************************************************)
(* C19: inverse and identity                                               *)
(***************************************************************************)
C19_Step ==
    /\ lastOp'.op = "inverse" =>
           /\ lastOp'.ret = None <=> Determinant(lastOp'.arg) = R0
           /\ lastOp'.ret # None =>
                  /\ MatMul(lastOp'.arg, lastOp'.ret) = MatIdentity
                  /\ MatMul(lastOp'.ret, lastOp'.arg) = MatIdentity
    /\ (lastOp'.op = "__mul__" /\ lastOp'.arg[2] = MatIdentity) =>
           lastOp'.ret = lastOp'.arg[1]

\* C19: Matrix4.inverse returns None exactly when the determinant is zero,
\* and otherwise a matrix I with M * I and I * M the identity; and
\* M * Matrix4.identity() is M.
C19_InverseAndIdentity == [][C19_Step]_vars

\* C19 witness: the inverse of a matrix that is not affine (its last row is
\* not 0 0 0 1) was taken and exists
C19_Witness ==
    /\ lastOp.op = "inverse"
    /\ lastOp.ret # None
    /\ lastOp.arg[4] # <<R0, R0, R0, R1>>
    /\ lastOp.arg[1][2] # R0
    /\ MatMul(lastOp.arg, lastOp.ret) = MatIdentity

(***************************************************************************)
(* Singular world matrices                                                 *)
(***************************************************************************)
\* Transform.world_to_local_matrix on the heap after reading world_matrix
WorldToLocalOf(h, n) == OrIdentity(MatInverse(h.world_matrix[n]))

\* m = transform.world_to_local_matrix
WorldToLocalRead(n, h) ==
    Step("world_to_local_matrix", n, None, IF Ok(h) THEN WorldToLocalOf(h, n) ELSE None, h)
ReadWorldToLocal(n) == WorldToLocalRead(n, WorldMatrix(Heap, n))

\* transform.inverse_transform_point(point)
InverseTransformPointRead(n, point, h) ==
    Step("inverse_transform_point", n, point,
         IF Ok(h) THEN transform_point(WorldToLocalOf(h, n), point) ELSE None, h)
InverseTransformPoint(n, point) == InverseTransformPointRead(n, point, WorldMatrix(Heap, n))

\* transform.world_position = value
SetWorldPosition(n, value) ==
    Step("set_world_position", n, value, None, WorldPositionSet(Heap, n, value))

\* m = camera.view_matrix
ViewMatrixRead(h) ==
    CamStep("view_matrix", None, IF Ok(h) THEN ViewMatrixOf(h) ELSE None, h, cam, cam_aim)
ReadViewMatrix == ViewMatrixRead(WorldMatrix(Heap, CamNode))

MaxSingularOps == 3    \* calls per run of SpecSingular
SingularScales == {V3(0, 1, 1), V3(0, 0, 0), V3(2, 1, 1)}
SingularPoints == {V3(1, 2, -3)}

\* p can become the parent of n without closing a cycle
KeepsTree(n, p) == p = NoParent \/ (p # n /\ p \notin Descendants(n))

\* Scales with zero components on the nodes of a tree hierarchy, the camera's
\* own Transform among them, and the calls that invert a world matrix
NextSingular ==
    /\ ops < MaxSingularOps
    /\ \/ \E n \in Nodes, v \in SingularScales : SetScale(n, v)
       \/ \E n \in Nodes, v \in PosSet : SetPosition(n, v)
       \/ \E n \in Nodes, p \in Nodes \cup {NoParent} : KeepsTree(n, p) /\ SetParent(n, p, TRUE)
       \/ \E n \in Nodes, v \in PosSet : SetWorldPosition(n, v)
       \/ \E n \in Nodes : ReadWorldToLocal(n)
       \/ \E n \in Nodes, pt \in SingularPoints : InverseTransformPoint(n, pt)
       \/ ReadViewMatrix
       \/ \E pt \in SingularPoints, size \in ScreenSizes : WorldToScreen(pt, size, size)

SpecSingular == Init /\ [][NextSingular]_vars

(***************************************************************************)
(* C20: a singular world matrix degrades to the identity                   *)
(***************************************************************************)
\* The world matrix the poses define for n has no inverse
Singular(n) == Determinant(ExpectedWorld(n)) = R0

SingularOps == {"world_to_local_matrix", "view_matrix", "set_world_position",
                "set_parent", "inverse_transform_point", "world_to_screen"}

C20_Step ==
    /\ lastOp'.op \in SingularOps => exc' = NoExc
    /\ (lastOp'.op \in {"world_to_local_matrix", "view_matrix"} /\ Singular(lastOp'.n)) =>
           lastOp'.ret = MatIdentity
    /\ (lastOp'.op = "inverse_transform_point" /\ Singular(lastOp'.n)) =>
           lastOp'.ret = lastOp'.arg
    /\ (lastOp'.op \in {"world_to_local_matrix", "view_matrix"} /\ ~Singular(lastOp'.n)) =>
           MatMul(lastOp'.ret, ExpectedWorld(lastOp'.n)) = MatIdentity

\* C20: in a tree of Transforms, whatever scales are zero, the world_position
\* setter, set_parent(world_position_stays=True), inverse_transform_point and
\* world_to_screen complete without raising; world_to_local_matrix and
\* Camera.view_matrix return the identity when the world matrix has no inverse
\* (and its inverse when it has one), so that inverse_transform_point returns
\* its argument.
C20_SingularDegradesToIdentity == [][C20_Step]_vars

\* C20 witness: world_to_local_matrix was read on a Transform whose own scale
\* has no zero component and whose parent's has one, and returned the identity
C20_Witness ==
    /\ lastOp.op = "world_to_local_matrix"
    /\ lastOp.ret = MatIdentity
    /\ exc = NoExc
    /\ parent[lastOp.n] # NoParent
    /\ scale[parent[lastOp.n]].x = R0
    /\ scale[lastOp.n] = VOne
    /\ Singular(lastOp.n)

(***************************************************************************)
(* C21: the order in which render_mesh draws the edges                     *)
(***************************************************************************)
\* The depth of a vertex, -view_z, from the poses as they are
DepthOf(vertex) == RNeg(ViewZ(transform_point(ExpectedWorld(MeshNode), vertex)))

\* The arithmetic mean of the depths of the end points of mesh edge i
MeanDepth(mesh, i) ==
    RDiv(RAdd(DepthOf(mesh.vertices[mesh.edges[i].v1_idx + 1]),
              DepthOf(mesh.vertices[mesh.edges[i].v2_idx + 1])), R2)

C21_Step ==
    (lastOp'.op = "render_mesh" /\ rend.camera /\ rend.render_mode \in WireframeModes) =>
        \A k \in 1..Len(lastOp'.ret), l \in 1..Len(lastOp'.ret) :
            k < l => RLe(MeanDepth(lastOp'.arg[1], lastOp'.ret[l]),
                         MeanDepth(lastOp'.arg[1], lastOp'.ret[k]))

\* C21: within one render_mesh call in a wireframe mode the edges are drawn in
\* non-increasing order of the mean of their end point depths: an edge drawn
\* before another is at least as far away.
C21_FarthestEdgeFirst == [][C21_Step]_vars

\* C21 witness: a mesh whose last edge is its farthest was rendered, and that
\* edge was drawn first, ahead of the two edges listed before it
C21_Witness ==
    /\ lastOp.op = "render_mesh"
    /\ lastOp.arg[1] = Doubled
    /\ rend.render_mode \in WireframeModes
    /\ lastOp.ret = <<3, 1, 2>>
    /\ RLt(MeanDepth(Doubled, 1), MeanDepth(Doubled, 3))

(***************************************************************************)
(* Mesh: vertices and the cached bounding box                              *)
(***************************************************************************)
\* Vector3.component_min(a, b), Vector3.component_max(a, b)
component_min(a, b) == Vector3(RMin(a.x, b.x), RMin(a.y, b.y), RMin(a.z, b.z))
component_max(a, b) == Vector3(RMax(a.x, b.x), RMax(a.y, b.y), RMax(a.z, b.z))

\* A faulty add_vertex that leaves a computed box in force
add_vertex_keeping_bounds(m, pos) ==
    [m EXCEPT !.vertices = Append(m.vertices, pos)]

\* Mesh.add_vertex(position)
add_vertex(m, pos) ==
    [m EXCEPT !.vertices = Append(m.vertices, pos), !.bounds_dirty = TRUE]

\* Mesh.merge(other): the copies of other's vertices are appended
merge(m, other) ==
    [m EXCEPT !.vertices = m.vertices \o other, !.bounds_dirty = TRUE]

\* Mesh.clear()
mesh_clear(m) == [m EXCEPT !.vertices = <<>>, !.bounds_dirty = TRUE]

\* The loop of get_bounds over self.vertices[1:]
RECURSIVE BoundsLoop(_, _, _, _)
BoundsLoop(vertices, i, lo, hi) ==
    IF i > Len(vertices) THEN <<lo, hi>>
    ELSE BoundsLoop(vertices, i + 1, component_min(lo, vertices[i]),
                    component_max(hi, vertices[i]))

\* The box get_bounds computes when the cached one is dirty
ComputedBounds(vertices) ==
    IF vertices = <<>> THEN <<VZero, VZero>>
    ELSE BoundsLoop(vertices, 2, vertices[1], vertices[1])

\* Mesh.get_bounds(): the mesh after the call
StoreBounds(m, box) ==
    [m EXCEPT !.bounds_min = box[1], !.bounds_max = box[2], !.bounds_dirty = FALSE]
get_bounds(m) ==
    IF m.bounds_dirty THEN StoreBounds(m, ComputedBounds(m.vertices)) ELSE m

\* One call on the mesh
BStep(name, arg, ret, m) ==
    /\ ops' = ops + 1
    /\ lastOp' = Op(name, 0, arg, ret)
    /\ bounds_mesh' = m
    /\ UNCHANGED <<tvars, exc, cvars, char_buffer, depth_buffer, color_buffer, draws, rend>>

AddVertex(pos) ==
    BStep("add_vertex", pos, Len(bounds_mesh.vertices),
          add_vertex(bounds_mesh, pos))
Merge(other) == BStep("merge", other, None, merge(bounds_mesh, other))
MeshClear == BStep("mesh_clear", None, None, mesh_clear(bounds_mesh))
GetBoundsDone(m) == BStep("get_bounds", None, <<m.bounds_min, m.bounds_max>>, m)
GetBounds == GetBoundsDone(get_bounds(bounds_mesh))

MaxBoundsOps == 5      \* calls per run of SpecBounds
VertexPositions == {V3(1, -2, 0), V3(-1, 0, 3), V3(0, 5, -4)}
OtherMeshes == {<<>>, <<V3(2, 2, 2), V3(-3, 1, 0)>>}

NextBounds ==
    /\ ops < MaxBoundsOps
    /\ \/ \E pos \in VertexPositions : AddVertex(pos)
       \/ \E other \in OtherMeshes : Merge(other)
       \/ MeshClear
       \/ GetBounds

SpecBounds == Init /\ [][NextBounds]_vars

(***************************************************************************)
(* C22: get_bounds is a correctly invalidated lazy cache                   *)
(***************************************************************************)
\* The least and the greatest of a non-empty set of numbers
Least(S) == CHOOSE v \in S : \A w \in S : RLe(v, w)
Greatest(S) == CHOOSE v \in S : \A w \in S : RLe(w, v)

\* The values of one coordinate over the vertices
Xs(vertices) == {vertices[i].x : i \in 1..Len(vertices)}
Ys(vertices) == {vertices[i].y : i \in 1..Len(vertices)}
Zs(vertices) == {vertices[i].z : i \in 1..Len(vertices)}

\* The smallest box that holds the vertices, zero for no vertices
BoxOf(vertices) ==
    IF vertices = <<>> THEN <<VZero, VZero>>
    ELSE << Vector3(Least(Xs(vertices)), Least(Ys(vertices)), Least(Zs(vertices))),
            Vector3(Greatest(Xs(vertices)), Greatest(Ys(vertices)), Greatest(Zs(vertices))) >>

C22_Step ==
    /\ lastOp'.op = "get_bounds" =>
           /\ lastOp'.ret = BoxOf(bounds_mesh.vertices)
           /\ bounds_mesh'.vertices = bounds_mesh.vertices
    /\ lastOp'.op = "add_vertex" => bounds_mesh'.bounds_dirty

\* C22: after any sequence of add_vertex, merge and clear calls interleaved
\* with get_bounds calls, get_bounds returns the component-wise minimum and
\* maximum over the positions of the vertices in the mesh, ((0,0,0),(0,0,0))
\* for no vertices, and add_vertex invalidates a computed box.
C22_BoundsCacheIsSound == [][C22_Step]_vars

\* C22 witness: a box was computed by get_bounds and a vertex outside it was
\* then added: the cached corners are those of the old box and marked dirty
C22_Witness ==
    /\ lastOp.op = "add_vertex"
    /\ bounds_mesh.bounds_dirty
    /\ Len(bounds_mesh.vertices) >= 2
    /\ <<bounds_mesh.bounds_min, bounds_mesh.bounds_max>> =
           BoxOf(SubSeq(bounds_mesh.vertices, 1, Len(bounds_mesh.vertices) - 1))
    /\ <<bounds_mesh.bounds_min, bounds_mesh.bounds_max>> # BoxOf(bounds_mesh.vertices)

(***************************************************************************)
(* Depth-tested and untested drawing on one grid                           *)
(***************************************************************************)
MaxDepthOps == 4       \* calls per run of SpecDepth

\* Edges of one depth from end to end, in both colours and at both depths
FlatEdges ==
    {e \in PEdges : /\ e.v1.screen_x = R0 /\ e.v1.screen_y = R0
                    /\ e.v2.screen_x = Frac(5, 2) /\ e.v2.screen_y = Frac(3, 2)
                    /\ e.v1.depth = e.v2.depth}

NextDepth ==
    /\ ops < MaxDepthOps
    /\ \/ SetCamera
       \/ \E mode \in {"WIREFRAME", "POINTS"} : SetRenderMode(mode)
       \/ \E mesh \in Meshes, color_override \in {NoColor, "green"} :
              RenderMesh(mesh, color_override)
       \/ \E e \in FlatEdges : GridDrawEdge(e)
       \/ \E x \in {0, 2}, y \in {0, 1}, d \in {R(-1), R0, R(5)} : SetChar(x, y, "a", "red", d)
       \/ \E h \in BoxHeights, fill \in BOOLEAN : DrawBox(0, 0, 3, h, "blue", fill)
       \/ \E p1 \in LinePoints : DrawLine(<<0, 0>>, p1, "blue", "*")
       \/ \E x \in {0, 2} : DrawText(x, 0, <<"h", "i">>, "red")
       \/ ClearWith(" ", "none")

SpecDepth == Init /\ [][NextDepth]_vars

(***************************************************************************)
(* C23: stored depths never increase between clears                        *)
(***************************************************************************)
\* The character, depth and colour of cell (x, y), 1-based, in grids b
CellOf(b, x, y) == <<b.char[y][x], b.depth[y][x], b.color[y][x]>>

C23_Step ==
    /\ lastOp'.op \in {"render_mesh", "_draw_edge", "set_char", "draw_box"} =>
           \A y \in 1..Height, x \in 1..Width :
               RLe(depth_buffer'[y][x], depth_buffer[y][x])
    /\ lastOp'.op \in {"render_mesh", "_draw_edge"} =>
           \A y \in 1..Height, x \in 1..Width :
               CellWritten(x, y) => RLt(depth_buffer'[y][x], depth_buffer[y][x])
    /\ lastOp'.op = "_draw_edge" =>
           \A i \in 1..Len(EdgePixels(lastOp'.arg)) :
               CellOf([char |-> char_buffer', depth |-> depth_buffer', color |-> color_buffer'],
                      EdgePixels(lastOp'.arg)[i].x + 1, EdgePixels(lastOp'.arg)[i].y + 1) =
                   IF RLt(EdgePixels(lastOp'.arg)[i].depth,
                          depth_buffer[EdgePixels(lastOp'.arg)[i].y + 1][EdgePixels(lastOp'.arg)[i].x + 1])
                   THEN <<EdgePixels(lastOp'.arg)[i].char, EdgePixels(lastOp'.arg)[i].depth,
                          EdgePixels(lastOp'.arg)[i].color>>
                   ELSE CellOf(Buffers, EdgePixels(lastOp'.arg)[i].x + 1,
                               EdgePixels(lastOp'.arg)[i].y + 1)

\* C23: under render_mesh, _draw_edge, set_char and draw_box the depth stored
\* at a cell never increases; a cell changed by a mesh draw has a strictly
\* smaller depth afterwards; and each pixel of an edge is written, character,
\* depth and colour together, exactly when its depth is strictly below the
\* stored one, so that a pixel of equal depth leaves the cell to the first draw.
C23_DepthNeverIncreases == [][C23_Step]_vars

\* C23 witness: an edge was drawn over cells that an earlier draw had left at
\* the same depth in the other colour, and the cells kept the first colour
C23_Witness ==
    /\ lastOp.op = "_draw_edge"
    /\ lastOp.arg.color = "blue"
    /\ depth_buffer[1][1] = lastOp.arg.v1.depth
    /\ color_buffer[1][1] = "red"
    /\ char_buffer[1][1] # "a"

(***************************************************************************)
(* C24: the depth interpolated along an edge                               *)
(***************************************************************************)
\* The larger of two whole numbers
IMax(a, b) == IF a > b THEN a ELSE b

\* N = max(dx, dy) of the edge, the number of steps from its first pixel to
\* its last
StepsOf(e) ==
    IMax(IAbs(Trunc(e.v2.screen_x) - Trunc(e.v1.screen_x)),
         IAbs(Trunc(e.v2.screen_y) - Trunc(e.v1.screen_y)))

\* The step at which the stepper is on pixel px: every step moves one cell
\* along the longer axis
StepAt(e, px) ==
    IMax(IAbs(px.x - Trunc(e.v1.screen_x)), IAbs(px.y - Trunc(e.v1.screen_y)))

\* v1.depth + (v2.depth - v1.depth) * k / N
LinearDepth(e, k) ==
    IF StepsOf(e) = 0 THEN e.v1.depth
    ELSE lerp(e.v1.depth, e.v2.depth, Frac(k, StepsOf(e)))

\* C24: the depth tested and stored at step k of an edge drawn over N + 1
\* pixels is v1.depth + (v2.depth - v1.depth) * k / N: the depth of v1 at the
\* first pixel and the depth of v2 at the last.  _draw_edge divides the step
\* by max_steps = N + 1, so the far end point's depth is never reached.
C24_DepthIsLinearBetweenEndpoints ==
    [][lastOp'.op = "_draw_edge" =>
          \A i \in 1..Len(EdgePixels(lastOp'.arg)) :
              EdgePixels(lastOp'.arg)[i].depth =
                  LinearDepth(lastOp'.arg, StepAt(lastOp'.arg, EdgePixels(lastOp'.arg)[i]))]_vars

(***************************************************************************)
(* The Bresenham steppers of draw_line and _draw_edge as pixel sequences   *)
(***************************************************************************)
PathFuel == 20         \* iterations of draw_line's while True that are followed
Unfinished == <<>>     \* closes a path whose loop was still running at PathFuel

\* A faulty step limit, one short: the number of steps, not of pixels
MaxStepsShort(dx, dy) == IMax(dx, dy)

\* max_steps = max(dx, dy) + 1
MaxStepsOf(dx, dy) == IMax(dx, dy) + 1

\* One turn of the stepper: e2 = 2 * err, then x0, y0 and err are moved
NextX(x0, err, dy, sx) == IF 2 * err > -dy THEN x0 + sx ELSE x0
NextY(y0, err, dx, sy) == IF 2 * err < dx THEN y0 + sy ELSE y0
NextErr(err, dx, dy) ==
    err - (IF 2 * err > -dy THEN dy ELSE 0) + (IF 2 * err < dx THEN dx ELSE 0)

\* The pixels draw_line's loop visits from (x0, y0) on, inside the grid or not
RECURSIVE LinePathFrom(_, _, _, _, _, _, _, _, _, _)
LinePathFrom(x0, y0, err, x1, y1, dx, dy, sx, sy, fuel) ==
    IF x0 = x1 /\ y0 = y1 THEN << <<x0, y0>> >>
    ELSE IF fuel = 0 THEN << <<x0, y0>>, Unfinished >>
    ELSE << <<x0, y0>> >> \o
         LinePathFrom(NextX(x0, err, dy, sx), NextY(y0, err, dx, sy), NextErr(err, dx, dy),
                      x1, y1, dx, dy, sx, sy, fuel - 1)

\* The pixels draw_line(x0, y0, x1, y1) visits, in order
LinePath(x0, y0, x1, y1) ==
    LinePathFrom(x0, y0, IAbs(x1 - x0) - IAbs(y1 - y0), x1, y1,
                 IAbs(x1 - x0), IAbs(y1 - y0),
                 IF x0 < x1 THEN 1 ELSE -1, IF y0 < y1 THEN 1 ELSE -1, PathFuel)

\* The pixels _draw_edge's loop visits from (x0, y0) on: while step < max_steps
RECURSIVE EdgePathFrom(_, _, _, _, _, _, _, _, _, _, _)
EdgePathFrom(x0, y0, err, step, x1, y1, dx, dy, sx, sy, max_steps) ==
    IF step >= max_steps THEN <<>>
    ELSE IF x0 = x1 /\ y0 = y1 THEN << <<x0, y0>> >>
    ELSE << <<x0, y0>> >> \o
         EdgePathFrom(NextX(x0, err, dy, sx), NextY(y0, err, dx, sy), NextErr(err, dx, dy),
                      step + 1, x1, y1, dx, dy, sx, sy, max_steps)

\* The pixels _draw_edge visits for an edge from (x0, y0) to (x1, y1), in order
EdgePath(x0, y0, x1, y1) ==
    EdgePathFrom(x0, y0, IAbs(x1 - x0) - IAbs(y1 - y0), 0, x1, y1,
                 IAbs(x1 - x0), IAbs(y1 - y0),
                 IF x0 < x1 THEN 1 ELSE -1, IF y0 < y1 THEN 1 ELSE -1,
                 MaxStepsOf(IAbs(x1 - x0), IAbs(y1 - y0)))

\* The stepper of draw_line, then of _draw_edge, run between two points
StepLine(p0, p1) ==
    MathStep("draw_line_steps", <<p0, p1>>, LinePath(p0[1], p0[2], p1[1], p1[2]))
StepEdge(p0, p1) ==
    MathStep("_draw_edge_steps", <<p0, p1>>, EdgePath(p0[1], p0[2], p1[1], p1[2]))

MaxStepperOps == 2     \* calls per run of SpecStepper
Coordinates == {-3, 0, 1, 4}
EndPoints == Coordinates \X Coordinates

NextStepper ==
    /\ ops < MaxStepperOps
    /\ \/ \E p0 \in EndPoints, p1 \in EndPoints : StepLine(p0, p1)
       \/ \E p0 \in EndPoints, p1 \in EndPoints : StepEdge(p0, p1)

SpecStepper == Init /\ [][NextStepper]_vars

(***************************************************************************)
(* C25: the steppers terminate and reach the far end point                 *)
(***************************************************************************)
\* The path runs from p0 to p1 in max(|dx|, |dy|) + 1 pixels, each next to
\* the one before
WalksTo(path, p0, p1) ==
    /\ Len(path) = IMax(IAbs(p1[1] - p0[1]), IAbs(p1[2] - p0[2])) + 1
    /\ \A i \in 1..Len(path) : path[i] # Unfinished
    /\ path[1] = p0
    /\ path[Len(path)] = p1
    /\ \A i \in 1..(Len(path) - 1) :
           /\ IAbs(path[i + 1][1] - path[i][1]) <= 1
           /\ IAbs(path[i + 1][2] - path[i][2]) <= 1

\* C25: between any two whole-number end points the loop of draw_line ends,
\* and draw_line and _draw_edge both visit max(|x1-x0|, |y1-y0|) + 1 pixels,
\* the first (x0, y0), the last (x1, y1), each at most one cell from the one
\* before in either coordinate; the step limit of _draw_edge does not cut the
\* edge short.
C25_SteppersReachTheEndPoint ==
    [][lastOp'.op \in {"draw_line_steps", "_draw_edge_steps"} =>
          WalksTo(lastOp'.ret, lastOp'.arg[1], lastOp'.arg[2])]_vars

\* C25 witness: _draw_edge stepped a steep edge running up and to the left
\* over eight pixels and ended on its far end point
C25_Witness ==
    /\ lastOp.op = "_draw_edge_steps"
    /\ lastOp.arg = << <<1, 4>>, <<-3, -3>> >>
    /\ Len(lastOp.ret) = 8
    /\ lastOp.ret[8] = <<-3, -3>>

(***************************************************************************)
(* The hierarchy: parent assignments, detach_children, reads               *)
(***************************************************************************)
\* A faulty detach_children that empties the list and leaves the children's
\* parent pointers alone
detach_children_list_only(h, n) == [h EXCEPT !.children[n] = <<>>]

\* for child in self._children[:]: child.parent = None
RECURSIVE DetachLoop(_, _, _)
DetachLoop(h, kids, i) ==
    IF ~Ok(h) \/ i > Len(kids) THEN h
    ELSE DetachLoop(ParentSet(h, kids[i], NoParent), kids, i + 1)

\* Transform.detach_children()
detach_children(h, n) == DetachLoop(h, h.children[n], 1)

DetachChildren(n) ==
    Step("detach_children", n, children[n], None, detach_children(Heap, n))

MaxTreeOps == 4        \* calls per run of SpecTree

\* Parent assignments with any Transform as the new parent, the node itself
\* and its descendants included, a pose mutation, and the matrix reads
NextTree ==
    /\ ops < MaxTreeOps
    /\ \/ \E n \in Nodes, p \in Nodes \cup {NoParent} : SetParentProp(n, p)
       \/ \E n \in Nodes, p \in Nodes \cup {NoParent} : SetParent(n, p, TRUE)
       \/ \E n \in Nodes : DetachChildren(n)
       \/ \E n \in Nodes : SetPosition(n, V3(1, 0, 0))
       \/ \E n \in Nodes : ReadLocalMatrix(n)
       \/ \E n \in Nodes : ReadWorldMatrix(n)

SpecTree == Init /\ [][NextTree]_vars

(***************************************************************************)
(* C26: parent pointers and child lists agree                              *)
(***************************************************************************)
\* C26: c is in p's child list exactly when c's parent is p, no Transform is
\* twice in a child list, and none is in the lists of two parents, after any
\* sequence of parent assignments, set_parent and detach_children calls,
\* those that end in an exception included.
C26_ParentAndChildrenAgree ==
    /\ \A c \in Nodes, p \in Nodes : InSeq(children[p], c) <=> parent[c] = p
    /\ \A p \in Nodes : \A i \in 1..Len(children[p]), j \in 1..Len(children[p]) :
           i # j => children[p][i] # children[p][j]
    /\ \A c \in Nodes, p \in Nodes, q \in Nodes :
           (InSeq(children[p], c) /\ InSeq(children[q], c)) => p = q

\* C26 witness: detach_children was called on a Transform with two children
\* and left it with none, both former children without a parent
C26_Witness ==
    /\ lastOp.op = "detach_children"
    /\ Len(lastOp.arg) = 2
    /\ children[lastOp.n] = <<>>
    /\ \A i \in 1..2 : parent[lastOp.arg[i]] = NoParent
    /\ exc = NoExc

(***************************************************************************)
(* C27: the hierarchy stays acyclic                                        *)
(***************************************************************************)
\* C27: after any sequence of parent assignments, the node itself or one of
\* its descendants as the new parent included, every Transform reaches a
\* root by following parent pointers, so the walks of root, is_child_of,
\* world_matrix and _mark_world_dirty end.
C27_HierarchyStaysAcyclic == \A n \in Nodes : InTree(n)

(***************************************************************************)
(* C28: a valid world cache has valid caches above it                      *)
(***************************************************************************)
\* The Transforms met by following parent pointers from n, n not counted
\* unless the pointers lead back to it
RECURSIVE Above(_, _)
Above(n, fuel) ==
    IF parent[n] = NoParent \/ fuel = 0 THEN {}
    ELSE {parent[n]} \cup Above(parent[n], fuel - 1)
Ancestors(n) == Above(n, NumNodes)

\* C28: a Transform whose world-dirty flag is clear has its local-dirty flag
\* clear and the world-dirty flag of every ancestor clear, under any
\* interleaving of pose mutations, re-parenting and matrix reads.
C28_CleanWorldHasCleanAncestors ==
    \A n \in Nodes :
        ~world_dirty[n] =>
            /\ ~local_dirty[n]
            /\ \A a \in Ancestors(n) : ~world_dirty[a]

(***************************************************************************)
(* C29: the clip planes stay ordered                                       *)
(***************************************************************************)
\* C29: after any sequence of near_clip and far_clip assignments the near
\* plane is strictly nearer than the far plane, so far - near is never zero
\* when the projection matrix is built.
C29_NearStaysBelowFar == RLt(cam.near, cam.far)

(***************************************************************************)
(* C30: draw_line and draw_text leave the depth grid alone                 *)
(***************************************************************************)
\* Cell (x, y), 0-based, is on the line draw_line steps from p0 to p1
OnLine(p0, p1, x, y) ==
    \E i \in 1..Len(LinePath(p0[1], p0[2], p1[1], p1[2])) :
        LinePath(p0[1], p0[2], p1[1], p1[2])[i] = <<x, y>>

\* Cell (x, y), 0-based, holds ch in colour col after the step if the call
\* addressed it, and what it held before if not
C30_Cell(x, y, addressed, ch, col) ==
    /\ char_buffer'[y + 1][x + 1] = IF addressed THEN ch ELSE char_buffer[y + 1][x + 1]
    /\ color_buffer'[y + 1][x + 1] = IF addressed THEN col ELSE color_buffer[y + 1][x + 1]

C30_Step ==
    /\ lastOp'.op \in {"draw_line", "draw_text"} =>
           /\ depth_buffer' = depth_buffer
           /\ exc' = NoExc
    /\ lastOp'.op = "draw_line" =>
           \A y \in 0..(Height - 1), x \in 0..(Width - 1) :
               C30_Cell(x, y, OnLine(lastOp'.arg[1], lastOp'.arg[2], x, y),
                        lastOp'.arg[4], lastOp'.arg[3])
    /\ lastOp'.op = "draw_text" =>
           \A y \in 0..(Height - 1), x \in 0..(Width - 1) :
               C30_Cell(x, y,
                        /\ y = lastOp'.arg[2]
                        /\ lastOp'.arg[1] <= x
                        /\ x < lastOp'.arg[1] + Len(lastOp'.arg[3]),
                        IF x - lastOp'.arg[1] + 1 \in 1..Len(lastOp'.arg[3])
                        THEN lastOp'.arg[3][x - lastOp'.arg[1] + 1] ELSE NoChar,
                        lastOp'.arg[4])
    /\ (lastOp.op \in {"draw_line", "draw_text"} /\ lastOp'.op = "_draw_edge") =>
           \A i \in 1..Len(EdgePixels(lastOp'.arg)) :
               RLt(EdgePixels(lastOp'.arg)[i].depth,
                   depth_buffer[EdgePixels(lastOp'.arg)[i].y + 1][EdgePixels(lastOp'.arg)[i].x + 1])
               => char_buffer'[EdgePixels(lastOp'.arg)[i].y + 1][EdgePixels(lastOp'.arg)[i].x + 1]
                      = EdgePixels(lastOp'.arg)[i].char

\* C30: draw_line and draw_text change the character and colour grids only:
\* the depth grid is the same before and after, every addressed cell inside
\* the grid takes the character and colour whatever depth it stores, no other
\* cell changes, and an edge drawn next still wins every cell where its depth
\* is below the stored one.
C30_OverlaysKeepDepth == [][C30_Step]_vars

\* C30 witness: draw_text wrote its first character into a cell whose stored
\* depth is -1, nearer than any depth a set_char with the default depth 0
\* could pass, and the cell still stores -1
C30_Witness ==
    /\ lastOp.op = "draw_text"
    /\ lastOp.arg[1] = 0
    /\ depth_buffer[1][1] = R(-1)
    /\ char_buffer[1][1] = "h"
    /\ color_buffer[1][1] = "red"

====
